---- MODULE Spec2Model ----
(***************************************************************************)
(* A model of the Skoob bookshelf fetcher:                                 *)
(*   - the paginated harvest loop   (api_request.py, fetch_all_pages)      *)
(*   - the session token acquisition (api_request.py / get_token.py,       *)
(*     get_token_from_playwright; extract_token.py)                        *)
(*   - the credential validator     (extract_token.py, _is_valid_jwt_token)*)
(*   - the storage scan             (extract_token.py,                     *)
(*     _extract_from_storage)                                              *)
(*   - the orchestrator             (api_request.py, fetch_bookshelf_data),*)
(*     which runs the acquisition and then the harvest                     *)
(* Each subsystem has its own specification over the shared variables:     *)
(* Spec (harvest), SpecAcq (acquisition), SpecValidator (validator),       *)
(* SpecStorage (storage scan), SpecFetch (orchestrator); SpecLive is the   *)
(* harvest with fairness, for its termination, and SpecAcqLive the         *)
(* acquisition with fairness.                                              *)
(***************************************************************************)
EXTENDS Integers, Sequences, FiniteSets, TLC

VARIABLES
    \* ---- fetch_all_pages ----
    pc,            \* position in fetch_all_pages: "idle", "loop", "retry", "done"
    limit,         \* the limit parameter (requested page size)
    page,          \* the page counter
    total_pages,   \* advisory total page count (None until page 1 is parsed)
    total_items,   \* advisory total item count
    all_items,     \* the accumulated item sequence
    gzip_bound,    \* whether the function-local "import gzip, zlib" has run
    result,        \* what fetch_all_pages returned
    log,           \* history: one entry per requests.get call, in call order
    h_user_id,     \* the user_id of fetch_all_pages (parameter, then local)
    user_data,     \* user_data of fetch_all_pages, by its "id": None when the
                   \* body of page 1 holds no user with an id
    sent,          \* history: the user_id parameter of each requests.get call
    \* ---- _is_valid_jwt_token ----
    v_pc,          \* "idle", "call" (about to be called), "done" (returned)
    v_token,       \* the argument
    v_ret,         \* the value returned
    \* ---- get_token_from_playwright, extract_auth_token ----
    apc,           \* position in the acquisition
    variant,       \* "api": api_request.py; "get": get_token.py
    browser,       \* "none", "open" (launched), "closed" (browser.close() called)
    token,         \* token of get_token_from_playwright
    request_found, \* request_found of get_token_from_playwright
    user_id,       \* user_id of get_token_from_playwright
    listeners,     \* the request handlers attached to the page
    net_token,     \* token of _extract_from_network
    net_found,     \* request_found of _extract_from_network
    caller,        \* the call of extract_auth_token in progress
    ea_ret,        \* the value extract_auth_token returns
    ea_scanned,    \* history: that call of extract_auth_token read the storage
    storage,       \* localStorage and sessionStorage of the page
    outcome,       \* what get_token_from_playwright returned or raised, and whether
                   \* its except clause logged an error
    prompts,       \* history: the number of input() calls
    scans,         \* history: the number of _extract_from_storage calls
    seen,          \* history: authorization headers of API requests in this window
    nreq,          \* the number of requests the handlers were called for
    \* ---- _extract_from_storage, called on its own ----
    s_pc,          \* "idle", "call" (about to be called), "done" (returned)
    s_storage,     \* localStorage and sessionStorage of the page it is given
    s_ret,         \* the value returned
    \* ---- fetch_bookshelf_data ----
    fb_pc,         \* "idle", "start", "acquire", "call_fetch", "fetch", "done"
    fb_args,       \* history: the token and user_id arguments of the call
    fb_token,      \* token of fetch_bookshelf_data
    fb_user_id,    \* user_id of fetch_bookshelf_data
    fb_extracted,  \* extracted_user_id of fetch_bookshelf_data
    fb_ret         \* "running", "data", "None", or "raise" (an exception left it)

hvars == <<pc, limit, page, total_pages, total_items, all_items, gzip_bound, result, log,
           h_user_id, user_data, sent>>

vvars == <<v_pc, v_token, v_ret>>

avars == <<apc, variant, browser, token, request_found, user_id, listeners, net_token,
           net_found, caller, ea_ret, ea_scanned, storage, outcome, prompts, scans, seen, nreq>>

svars == <<s_pc, s_storage, s_ret>>

fvars == <<fb_pc, fb_args, fb_token, fb_user_id, fb_extracted, fb_ret>>

vars == <<hvars, vvars, avars, svars, fvars>>

(***************************************************************************)
(* Bounds of the model.                                                    *)
(***************************************************************************)
MaxPage == 3       \* requests are modelled for page numbers 1..MaxPage
MaxLimit == 2      \* limit, and the items of one response, range up to this
MaxSeg == 2        \* filler characters per segment of a validator input
MaxStored == 1     \* entries in the two storage namespaces together
MaxRequests == 2   \* requests the page issues while a handler is attached
MaxKeys == 2       \* entries of one storage namespace, for the storage scan alone

(***************************************************************************)
(* Python values.                                                          *)
(***************************************************************************)
\* None, for the optional integers total_pages and total_items.
None == -1

\* Python truthiness of an Optional[int]: None and 0 are both falsy.
Truthy(x) == x /= None /\ x /= 0

\* A Python value that is a string, as its sequence of characters.
PyStr(chars) == [type |-> "str", chars |-> chars]

PyNone == [type |-> "NoneType", chars |-> <<>>]

\* A value that is neither a string nor None (an int, a dict, ...).
PyOther == [type |-> "other", chars |-> <<>>]

\* Python truthiness of a string or None: None and "" are falsy.
TruthyVal(v) == v.type = "other" \/ (v.type = "str" /\ v.chars /= <<>>)

(***************************************************************************)
(* _is_valid_jwt_token (extract_token.py, lines 14-42)                     *)
(***************************************************************************)
\* Line 39: the minimum length.
MinTokenLen == 50

\* Line 35: the header pattern.
JwtPrefix == <<"e", "y", "J">>

\* str.split(sep): the segments between the occurrences of sep, of which
\* there is always one more than occurrences.
RECURSIVE Split(_, _)
Split(chars, sep) ==
    IF \A i \in 1..Len(chars) : chars[i] /= sep
    THEN <<chars>>
    ELSE LET i == CHOOSE j \in 1..Len(chars) :
                    chars[j] = sep /\ \A k \in 1..(j - 1) : chars[k] /= sep
         IN  <<SubSeq(chars, 1, i - 1)>> \o Split(SubSeq(chars, i + 1, Len(chars)), sep)

\* str.startswith(prefix)
StartsWith(chars, prefix) ==
    Len(chars) >= Len(prefix) /\ SubSeq(chars, 1, Len(prefix)) = prefix

\* The validator without the length test.
IsValidJwtTokenAnyLength(tok) ==
    IF ~TruthyVal(tok) \/ tok.type /= "str" THEN FALSE
    ELSE IF Len(Split(tok.chars, ".")) /= 3 THEN FALSE
    ELSE StartsWith(tok.chars, JwtPrefix)

\* The validator accepting whatever is non-empty.
IsValidJwtTokenAnything(tok) == TruthyVal(tok)

\* Lines 25-42.
IsValidJwtToken(tok) ==
    IF ~TruthyVal(tok) \/ tok.type /= "str" THEN FALSE
    ELSE IF Len(Split(tok.chars, ".")) /= 3 THEN FALSE
    ELSE IF ~StartsWith(tok.chars, JwtPrefix) THEN FALSE
    ELSE IF Len(tok.chars) < MinTokenLen THEN FALSE
    ELSE TRUE

\* n copies of the character c.
Fill(c, n) == [i \in 1..n |-> c]

\* The arguments the validator is called with: strings made of a head, a
\* long run of filler and three short runs, each optionally followed by a
\* dot, so that lengths lie on both sides of MinTokenLen with zero to three
\* dots and empty or non-empty segments; and the non-string values.
ValidatorStrings ==
    { h \o Fill("a", pad) \o Fill("b", n1) \o d1 \o Fill("c", n2) \o d2 \o Fill("d", n3) \o d3 :
        h \in {<<>>, JwtPrefix, <<"e", "y", "j">>, <<".", "e", "y", "J">>},
        pad \in {0, MinTokenLen - 8},
        n1 \in 0..MaxSeg, n2 \in 0..MaxSeg, n3 \in 0..MaxSeg,
        d1 \in {<<>>, <<".">>}, d2 \in {<<>>, <<".">>}, d3 \in {<<>>, <<".">>} }

ValidatorInputs == {PyStr(c) : c \in ValidatorStrings} \cup {PyNone, PyOther}

\* The arguments of one call, with the other two subsystems at rest.
InitValidator ==
    /\ v_pc = "call"
    /\ v_token \in ValidatorInputs
    /\ v_ret = FALSE
    /\ pc = "idle" /\ limit = 1 /\ page = 1
    /\ total_pages = -1 /\ total_items = -1
    /\ all_items = <<>> /\ gzip_bound = FALSE
    /\ result = [kind |-> "running", total_pages |-> -1, total_items |-> -1, items |-> <<>>]
    /\ log = <<>>
    /\ h_user_id = PyStr(<<>>) /\ user_data = PyNone /\ sent = <<>>
    /\ apc = "idle" /\ variant = "api" /\ browser = "none"
    /\ token = "None" /\ request_found = FALSE /\ user_id = PyNone
    /\ listeners = {} /\ net_token = "None" /\ net_found = FALSE
    /\ caller = "none" /\ ea_ret = "None" /\ ea_scanned = FALSE
    /\ storage = [local |-> <<>>, session |-> <<>>]
    /\ outcome = [kind |-> "running", tuple |-> FALSE, token |-> "None", user_id |-> PyNone,
                  error_logged |-> FALSE]
    /\ prompts = 0 /\ scans = 0 /\ seen = <<>> /\ nreq = 0
    /\ s_pc = "idle" /\ s_storage = [local |-> <<>>, session |-> <<>>] /\ s_ret = "None"
    /\ fb_pc = "idle" /\ fb_args = [token |-> "None", user_id |-> PyNone]
    /\ fb_token = "None" /\ fb_user_id = PyNone /\ fb_extracted = PyNone
    /\ fb_ret = "running"

\* One call of _is_valid_jwt_token.
Validate ==
    /\ v_pc = "call"
    /\ v_ret' = IsValidJwtToken(v_token)
    /\ v_pc' = "done"
    /\ v_token' = v_token
    /\ UNCHANGED <<hvars, avars, svars, fvars>>

(***************************************************************************)
(* The responses of the API, by what fetch_all_pages looks at.             *)
(*   status : "exc" (requests.get raised a RequestException),              *)
(*            "non200", "200"                                              *)
(*   enc    : the Content-Encoding header, "" when absent;                 *)
(*            "zstd" stands for a scheme the code does not know            *)
(*   text   : response.text: "empty", "json" (begins with { or [),         *)
(*            "other"                                                      *)
(*   json   : response.json(): "dict", "nondict" (a list or a scalar),     *)
(*            "fail" (JSONDecodeError)                                     *)
(*   man    : decompressing response.content by hand with the declared     *)
(*            scheme: "fail" (raises), or the text it yields: "empty",     *)
(*            "json" (parses), "bad" (does not parse)                      *)
(*   total_pages, total_items, n : the fields and the item count of the     *)
(*            object in the body, as response.json() or manual              *)
(*            decompression gives it                                        *)
(***************************************************************************)
Resp(st, e, t, j, m, tp, ti, n) ==
    [status |-> st, enc |-> e, text |-> t, json |-> j, man |-> m,
     total_pages |-> tp, total_items |-> ti, n |-> n]

Advised(hi) == {None} \cup (0..hi)

\* Bodies that parse to a dict. Advisory fields are read on page 1 only, so
\* they vary only there; a later page advises MaxPage pages of MaxLimit
\* items.
DictResponses(p) ==
    { Resp("200", e, "json", "dict", "fail", tp, ti, n) :
        e \in {"", "gzip"},
        tp \in (IF p = 1 THEN Advised(MaxPage) ELSE {MaxPage}),
        ti \in (IF p = 1 THEN Advised(MaxPage * MaxLimit) ELSE {MaxPage * MaxLimit}),
        n \in 0..MaxLimit }

\* Bodies that response.json() does not parse to a dict. One that manual
\* decompression turns into JSON holds an object with one item that advises
\* MaxPage pages of one item.
OtherResponses ==
    { Resp("200", e, t, j, m, IF m = "json" THEN MaxPage ELSE None,
           IF m = "json" THEN MaxPage ELSE None, IF m = "json" THEN 1 ELSE 0) :
        e \in {"", "gzip", "deflate", "br", "zstd"},
        t \in {"empty", "json", "other"},
        j \in {"nondict", "fail"},
        m \in {"fail", "empty", "json", "bad"} }

\* The combinations a server can produce: nothing can be decompressed by hand
\* without a known declared scheme, an empty text parses to nothing, and a
\* body that response.json() parsed is never decompressed by hand.
Consistent(r) ==
    /\ (r.enc \in {"", "zstd"} => r.man = "fail")
    /\ (r.enc = "br" => r.man /= "empty")
    /\ (r.text = "empty" => r.json = "fail")
    /\ (r.json /= "fail" => r.man = "fail")

Responses(p) ==
    {Resp("exc", "", "empty", "fail", "fail", None, None, 0),
     Resp("non200", "", "other", "fail", "fail", None, None, 0)}
    \cup DictResponses(p)
    \cup {r \in OtherResponses : Consistent(r)}

\* The response to the retry request, lines 451-454.
RetryResponses ==
    {Resp("exc", "", "empty", "fail", "fail", None, None, 0),
     Resp("non200", "", "other", "fail", "fail", None, None, 0),
     Resp("200", "", "other", "fail", "fail", None, None, 0),
     Resp("200", "", "json", "nondict", "fail", None, None, 0)}
    \cup { Resp("200", "", "json", "dict", "fail", MaxPage, MaxPage * MaxLimit, n) :
                n \in 0..MaxLimit }

\* The items of one response: each item is tagged with the request it came
\* from and its position in that response.
Items(p, retry, n) == [i \in 1..n |-> [page |-> p, retry |-> retry, idx |-> i]]

(***************************************************************************)
(* Decoding a response, lines 339-443.                                     *)
(***************************************************************************)
\* Lines 353-357: the branch that runs "import gzip, import zlib".
Stage1Imports(r) == r.enc /= "" /\ r.text /= "json"

\* Lines 340-370: response_text after the first decoding block.
Stage1Text(r) ==
    IF r.enc = "" THEN r.text
    ELSE IF r.text = "json" THEN "json"
    ELSE IF r.enc \in {"gzip", "deflate"} /\ r.man /= "fail"
         THEN (IF r.man = "bad" THEN "other" ELSE r.man)
    ELSE r.text

\* Lines 407-443: the fallback after json.JSONDecodeError. TRUE when manual
\* decompression yields data, FALSE when the handler re-raises. gz tells
\* whether the names gzip and zlib are bound at that point.
ManualRecovers(r, gz) ==
    CASE r.enc = "" -> FALSE
      [] r.enc \in {"gzip", "deflate"} -> gz /\ r.man = "json"
      [] r.enc = "br" -> r.man = "json"
      [] OTHER -> FALSE

\* The path one response takes through lines 339-488.
Path(r, gz) ==
    IF Stage1Text(r) = "empty" THEN "empty"
    ELSE IF r.json = "dict" THEN "parsed"
    ELSE IF r.json = "nondict" THEN "nondict"
    ELSE IF ManualRecovers(r, gz \/ Stage1Imports(r)) THEN "recovered"
    ELSE "raise"

(***************************************************************************)
(* The values fetch_all_pages returns.                                     *)
(***************************************************************************)
Running == [kind |-> "running", total_pages |-> None, total_items |-> None, items |-> <<>>]

ReturnNone == [kind |-> "None", total_pages |-> None, total_items |-> None, items |-> <<>>]

\* Lines 546-554.
ResultOf(tp, ti, pg, items) ==
    [kind |-> "dict",
     total_pages |-> IF Truthy(tp) THEN tp ELSE pg - 1,
     total_items |-> IF Truthy(ti) THEN ti ELSE Len(items),
     items |-> items]

\* ReachedTotal one item early.
ReachedTotalOneShort(ti, items) == Truthy(ti) /\ Len(items) + 1 >= ti

\* Lines 332, 375, 463, 493, 509, 531: the advised total is met.
ReachedTotal(ti, items) == Truthy(ti) /\ Len(items) >= ti

\* ReachedLastPage with the strict comparison.
ReachedLastPageStrict(tp, pg) == Truthy(tp) /\ pg > tp

\* Lines 497, 514: the advised last page is reached.
ReachedLastPage(tp, pg) == Truthy(tp) /\ pg >= tp

\* PastLastPage one page later.
PastLastPageByTwo(tp, pg) == Truthy(tp) /\ pg > tp + 1

\* PastLastPage with the comparison that is not strict.
PastLastPageOrAt(tp, pg) == Truthy(tp) /\ pg >= tp

\* Lines 379, 467: the page counter is past the advised last page.
PastLastPage(tp, pg) == Truthy(tp) /\ pg > tp

\* ShortPage off by one either way.
ShortPageOrFull(n, lim) == n <= lim

ShortPageStrict(n, lim) == n < lim - 1

\* Line 519: fewer items than the requested page size.
ShortPage(n, lim) == n < lim

\* RetryWanted on whatever page items are missing.
RetryWantedAnyPage(tp, ti, pg, items) ==
    /\ Truthy(tp)
    /\ Truthy(ti) /\ Len(items) < ti

\* Lines 446-447: the last expected page, with items still missing.
RetryWanted(tp, ti, pg, items) ==
    /\ Truthy(tp) /\ pg = tp
    /\ Truthy(ti) /\ Len(items) < ti

Entry(p, retry, kind, n) == [page |-> p, retry |-> retry, kind |-> kind, n |-> n]

(***************************************************************************)
(* fetch_all_pages                                                         *)
(***************************************************************************)
\* The user_id a caller passes: none ("", as fetch_bookshelf_data does at
\* line 624 when it has none) or one it knows.
ExplicitUserId == PyStr(<<"u", "0">>)

CallerUserIds == {PyStr(<<>>), ExplicitUserId}

\* data.get("user"), by its "id": no user with an id, or the id the API
\* gives.
ApiUserId == PyStr(<<"u", "2">>)

UserBodies == {PyNone, ApiUserId}

\* Line 316: the request carries params, built at lines 305-312 from the
\* user_id of this iteration.
Send ==
    /\ sent' = Append(sent, h_user_id)
    /\ h_user_id' = h_user_id
    /\ user_data' = user_data

\* Lines 295-300, for every limit the caller may pass, with the other two
\* subsystems at rest.
Init ==
    /\ pc = "loop"
    /\ limit \in 1..MaxLimit
    /\ page = 1
    /\ total_pages = None
    /\ total_items = None
    /\ all_items = <<>>
    /\ gzip_bound = FALSE
    /\ result = Running
    /\ log = <<>>
    /\ h_user_id \in CallerUserIds
    /\ user_data = PyNone
    /\ sent = <<>>
    /\ v_pc = "idle" /\ v_token = PyNone /\ v_ret = FALSE
    /\ apc = "idle" /\ variant = "api" /\ browser = "none"
    /\ token = "None" /\ request_found = FALSE /\ user_id = PyNone
    /\ listeners = {} /\ net_token = "None" /\ net_found = FALSE
    /\ caller = "none" /\ ea_ret = "None" /\ ea_scanned = FALSE
    /\ storage = [local |-> <<>>, session |-> <<>>]
    /\ outcome = [kind |-> "running", tuple |-> FALSE, token |-> "None", user_id |-> PyNone,
                  error_logged |-> FALSE]
    /\ prompts = 0 /\ scans = 0 /\ seen = <<>> /\ nreq = 0
    /\ s_pc = "idle" /\ s_storage = [local |-> <<>>, session |-> <<>>] /\ s_ret = "None"
    /\ fb_pc = "idle" /\ fb_args = [token |-> "None", user_id |-> PyNone]
    /\ fb_token = "None" /\ fb_user_id = PyNone /\ fb_extracted = PyNone
    /\ fb_ret = "running"

\* "break", then lines 543-554.
Break ==
    /\ pc' = "done"
    /\ page' = page
    /\ result' = ResultOf(total_pages', total_items', page, all_items')

\* FailNone without the hard failure: the loop is left by "break".
FailNonePartial == Break

\* "return None", lines 329, 528, 539.
FailNone ==
    /\ pc' = "done"
    /\ page' = page
    /\ result' = ReturnNone

\* NextPage without the increment of the page counter.
NextPageSamePage ==
    /\ pc' = "loop"
    /\ page' = page
    /\ result' = result

\* "page += 1; continue"
NextPage ==
    /\ pc' = "loop"
    /\ page' = page + 1
    /\ result' = result

\* OuterExcept returning None whatever the page.
OuterExceptAlwaysNone == FailNone

\* OuterExcept returning None on page 2 as well.
OuterExceptNoneUpToPageTwo == IF page <= 2 THEN FailNone ELSE Break

\* The handlers of lines 525-541: an exception that reaches them.
OuterExcept == IF page = 1 THEN FailNone ELSE Break

\* Lines 462-471 (and, with the same tests, 375-383).
AfterParseError ==
    IF ReachedTotal(total_items, all_items) THEN Break
    ELSE IF PastLastPage(total_pages, page) THEN Break
    ELSE NextPage

\* What fetch_all_pages does not touch.
Others == <<vvars, avars, svars, fvars>>

\* A request is about to be issued for the current page (line 316).
AtRequest == pc = "loop" /\ page <= MaxPage

\* Line 316 raises requests.exceptions.RequestException; lines 525-535.
RequestException ==
    /\ AtRequest
    /\ UNCHANGED Others
    /\ \E r \in Responses(page) :
        /\ r.status = "exc"
        /\ log' = Append(log, Entry(page, FALSE, "exc", 0))
        /\ Send
        /\ UNCHANGED <<limit, total_pages, total_items, all_items, gzip_bound>>
        /\ OuterExcept

\* Lines 325-337.
StatusNot200 ==
    /\ AtRequest
    /\ UNCHANGED Others
    /\ \E r \in Responses(page) :
        /\ r.status = "non200"
        /\ log' = Append(log, Entry(page, FALSE, "non200", 0))
        /\ Send
        /\ UNCHANGED <<limit, total_pages, total_items, all_items, gzip_bound>>
        /\ IF page = 1 THEN FailNone ELSE Break

\* Lines 372-383.
EmptyBody ==
    /\ AtRequest
    /\ UNCHANGED Others
    /\ \E r \in Responses(page) :
        /\ r.status = "200"
        /\ Path(r, gzip_bound) = "empty"
        /\ gzip_bound' = (gzip_bound \/ Stage1Imports(r))
        /\ log' = Append(log, Entry(page, FALSE, "empty", 0))
        /\ Send
        /\ UNCHANGED <<limit, total_pages, total_items, all_items>>
        /\ AfterParseError

\* Lines 396-443 when the handler re-raises, then lines 525-541.
ParseFailure ==
    /\ AtRequest
    /\ UNCHANGED Others
    /\ \E r \in Responses(page) :
        /\ r.status = "200"
        /\ Path(r, gzip_bound) = "raise"
        /\ gzip_bound' = (gzip_bound \/ Stage1Imports(r))
        /\ log' = Append(log, Entry(page, FALSE, "raise", 0))
        /\ Send
        /\ UNCHANGED <<limit, total_pages, total_items, all_items>>
        /\ OuterExcept

\* response.json() gives a list or a scalar: data.get raises AttributeError
\* at line 475 or 488, handled at lines 536-541.
NonDictData ==
    /\ AtRequest
    /\ UNCHANGED Others
    /\ \E r \in Responses(page) :
        /\ r.status = "200"
        /\ Path(r, gzip_bound) = "nondict"
        /\ gzip_bound' = (gzip_bound \/ Stage1Imports(r))
        /\ log' = Append(log, Entry(page, FALSE, "nondict", 0))
        /\ Send
        /\ UNCHANGED <<limit, total_pages, total_items, all_items>>
        /\ OuterExcept

\* Lines 396-434 when manual decompression yields data, then lines 445-471:
\* the data is not used; the retry of the last expected page is decided.
ParseRecovered ==
    /\ AtRequest
    /\ UNCHANGED Others
    /\ \E r \in Responses(page) :
        /\ r.status = "200"
        /\ Path(r, gzip_bound) = "recovered"
        /\ gzip_bound' = (gzip_bound \/ Stage1Imports(r))
        /\ log' = Append(log, Entry(page, FALSE, "recovered", r.n))
        /\ Send
        /\ UNCHANGED <<limit, total_pages, total_items, all_items>>
        /\ IF RetryWanted(total_pages, total_items, page, all_items)
           THEN pc' = "retry" /\ page' = page /\ result' = result
           ELSE AfterParseError

\* Extend putting the new items in front.
ExtendInFront(items, new) == new \o items

\* Lines 457, 505: all_items.extend(items).
Extend(items, new) == items \o new

\* Lines 449-460, then 462-471 when the retry did not break.
Retry ==
    /\ pc = "retry"
    /\ UNCHANGED Others
    /\ \E r \in RetryResponses :
        LET ok == r.status = "200" /\ r.json = "dict" /\ r.n > 0
            kind == IF r.status /= "200" THEN r.status
                    ELSE IF r.json = "dict" THEN "parsed" ELSE r.json
        IN  /\ log' = Append(log, Entry(page, TRUE, kind, r.n))
            /\ Send
            /\ UNCHANGED <<limit, total_pages, total_items, gzip_bound>>
            /\ IF ok
               THEN all_items' = Extend(all_items, Items(page, TRUE, r.n)) /\ Break
               ELSE all_items' = all_items /\ AfterParseError

\* Metadata taken from the response of every page.
MetadataEveryPage(pg, held, advised) == advised

\* Lines 473-476: total_pages and total_items are taken from the response
\* on page 1.
Metadata(pg, held, advised) == IF pg = 1 THEN advised ELSE held

\* AdoptUserId taking the id of the response whatever the user_id is.
AdoptUserIdAlways(pg, uid, u) == IF pg = 1 /\ TruthyVal(u) THEN u ELSE uid

\* Lines 480-485: on page 1 the id of the response is adopted when the
\* user_id is empty.
AdoptUserId(pg, uid, u) ==
    IF pg = 1 /\ ~TruthyVal(uid) /\ u /= PyNone THEN u ELSE uid

\* Lines 473-523.
PageParsed ==
    /\ AtRequest
    /\ UNCHANGED Others
    /\ \E r \in Responses(page), u \in (IF page = 1 THEN UserBodies ELSE {PyNone}) :
        /\ r.status = "200"
        /\ Path(r, gzip_bound) = "parsed"
        /\ gzip_bound' = (gzip_bound \/ Stage1Imports(r))
        /\ log' = Append(log, Entry(page, FALSE, "parsed", r.n))
        /\ sent' = Append(sent, h_user_id)
        /\ user_data' = (IF page = 1 THEN u ELSE user_data)
        /\ h_user_id' = AdoptUserId(page, h_user_id, u)
        /\ limit' = limit
        /\ total_pages' = Metadata(page, total_pages, r.total_pages)
        /\ total_items' = Metadata(page, total_items, r.total_items)
        /\ IF r.n = 0
           THEN /\ all_items' = all_items
                /\ IF ReachedTotal(total_items', all_items) THEN Break
                   ELSE IF ReachedLastPage(total_pages', page) THEN Break
                   ELSE NextPage
           ELSE /\ all_items' = Extend(all_items, Items(page, FALSE, r.n))
                /\ IF ReachedTotal(total_items', all_items') THEN Break
                   ELSE IF ReachedLastPage(total_pages', page) THEN Break
                   ELSE IF ShortPage(r.n, limit) THEN Break
                   ELSE NextPage

Next ==
    \/ RequestException
    \/ StatusNot200
    \/ EmptyBody
    \/ ParseFailure
    \/ NonDictData
    \/ ParseRecovered
    \/ Retry
    \/ PageParsed

Spec == Init /\ [][Next]_vars

(***************************************************************************)
(* fetch_all_pages against a server that holds nothing beyond page         *)
(* MaxPage: every later request is answered with status 200 and an empty   *)
(* body or an empty item list. Beyond MaxPage the page counter only        *)
(* matters through its comparison with total_pages, which is at most       *)
(* MaxPage when advised, so it is kept as MaxPage + 1 or MaxPage + 2,       *)
(* alternating, and the histories record no further request.               *)
(***************************************************************************)
\* Lines 372-383 (an empty body) and 490-503 (an empty item list) for a page
\* beyond MaxPage.
EmptyBeyondMaxPage ==
    /\ pc = "loop" /\ page > MaxPage
    /\ UNCHANGED Others
    /\ UNCHANGED <<limit, total_pages, total_items, all_items, gzip_bound, log, h_user_id,
                   user_data, sent>>
    /\ \E kind \in {"body", "items"} :
        IF ReachedTotal(total_items, all_items) THEN Break
        ELSE IF kind = "body" /\ PastLastPage(total_pages, page) THEN Break
        ELSE IF kind = "items" /\ ReachedLastPage(total_pages, page) THEN Break
        ELSE /\ pc' = "loop"
             /\ page' = (IF page = MaxPage + 1 THEN MaxPage + 2 ELSE MaxPage + 1)
             /\ result' = result

NextLive ==
    \/ Next
    \/ EmptyBeyondMaxPage

\* The loop keeps running: requests.get returns or raises, and every
\* iteration reaches its end.
SpecLive == Init /\ [][NextLive]_vars /\ WF_vars(NextLive)

(***************************************************************************)
(* _extract_from_storage (extract_token.py, lines 137-216)                 *)
(***************************************************************************)
\* Two credentials that pass the validator, and a header value that does not.
JwtA == JwtPrefix \o Fill("a", 20) \o <<".">> \o Fill("p", 20) \o <<".">> \o Fill("s", 10)

JwtB == JwtPrefix \o Fill("b", 20) \o <<".">> \o Fill("q", 20) \o <<".">> \o Fill("t", 10)

Junk == <<"B", "a", "s", "i", "c", " ", "x">>

\* The state names the values a token variable, a header or a storage entry
\* may hold; Text gives the Python value a name stands for.
NoToken == "None"

Text(name) ==
    CASE name = "jwtA" -> PyStr(JwtA)
      [] name = "jwtB" -> PyStr(JwtB)
      [] name = "junk" -> PyStr(Junk)
      [] OTHER -> PyNone

\* The names of the values that bool(value) takes for true, and of those
\* that _is_valid_jwt_token(value) accepts.
TokenNames == {NoToken, "jwtA", "jwtB", "junk"}

TruthyNames == {name \in TokenNames : TruthyVal(Text(name))}

ValidNames == {name \in TokenNames : IsValidJwtToken(Text(name))}

\* bool(value)
TruthyTok(name) == name \in TruthyNames

\* _is_valid_jwt_token(value)
ValidTok(name) == name \in ValidNames

\* Lines 149-159.
storage_keys ==
    << <<"a","u","t","h","_","t","o","k","e","n">>,
       <<"t","o","k","e","n">>,
       <<"j","w","t">>,
       <<"a","u","t","h","o","r","i","z","a","t","i","o","n">>,
       <<"a","u","t","h","T","o","k","e","n">>,
       <<"a","c","c","e","s","s","T","o","k","e","n">>,
       <<"a","c","c","e","s","s","_","t","o","k","e","n">>,
       <<"s","k","o","o","b","_","t","o","k","e","n">>,
       <<"s","k","o","o","b","_","a","u","t","h">> >>

\* The keys a namespace of the modelled browser may hold: a fixed key, a key
\* that is not fixed but whose name contains "auth", and an unrelated key.
KeyToken == <<"t","o","k","e","n">>

KeyUserAuthData == <<"u","s","e","r","A","u","t","h","D","a","t","a">>

KeyTheme == <<"t","h","e","m","e">>

StoreKeys == {KeyToken, KeyUserAuthData, KeyTheme}

StoreValues == {"jwtA", "jwtB", "junk"}

\* In place of a value: page.evaluate raises when the key is read.
ReadError == "error"

UpperCase == <<"A","B","C","D","E","F","G","H","I","J","K","L","M",
               "N","O","P","Q","R","S","T","U","V","W","X","Y","Z">>

LowerCase == <<"a","b","c","d","e","f","g","h","i","j","k","l","m",
               "n","o","p","q","r","s","t","u","v","w","x","y","z">>

\* str.lower()
Lower(chars) ==
    [i \in 1..Len(chars) |->
        IF \E k \in 1..Len(UpperCase) : UpperCase[k] = chars[i]
        THEN LowerCase[CHOOSE k \in 1..Len(UpperCase) : UpperCase[k] = chars[i]]
        ELSE chars[i]]

\* sub in chars
Contains(chars, sub) ==
    \E i \in 1..(Len(chars) - Len(sub) + 1) : SubSeq(chars, i, i + Len(sub) - 1) = sub

\* Lines 189, 203.
NameMatches(key) ==
    \/ Contains(Lower(key), <<"a","u","t","h">>)
    \/ Contains(Lower(key), <<"t","o","k","e","n">>)

\* A namespace is the sequence of its entries in Object.keys order.
Namespaces(n) ==
    { ns \in [1..n -> [key : StoreKeys, value : StoreValues]] :
        \A i \in 1..n, j \in 1..n : i /= j => ns[i].key /= ns[j].key }

Storages ==
    UNION { { [local |-> l, session |-> s] : l \in Namespaces(ij[1]), s \in Namespaces(ij[2]) } :
            ij \in {x \in (0..MaxStored) \X (0..MaxStored) : x[1] + x[2] <= MaxStored} }

\* Storage.getItem(key): the value, or null.
GetItem(ns, key) ==
    IF \E i \in 1..Len(ns) : ns[i].key = key
    THEN ns[CHOOSE i \in 1..Len(ns) : ns[i].key = key].value
    ELSE NoToken

Lowest(S) == CHOOSE i \in S : \A j \in S : i <= j

\* Lines 163-170 (174-181): the first fixed key holding a non-empty value;
\* the value is returned as it is. Each read has its own try statement: a
\* key whose read raises is passed over.
FirstFixed(ns) ==
    LET hits == {i \in 1..Len(storage_keys) : TruthyTok(GetItem(ns, storage_keys[i]))}
    IN  IF hits = {} THEN NoToken ELSE GetItem(ns, storage_keys[Lowest(hits)])

\* Lines 185-197 (199-211): the first enumerated key whose name matches and
\* whose value passes the validator. The try statement encloses the whole
\* loop: the keys after one whose read raises are not read.
FirstHeuristic(ns) ==
    LET errs == {i \in 1..Len(ns) : NameMatches(ns[i].key) /\ ns[i].value = ReadError}
        last == IF errs = {} THEN Len(ns) ELSE Lowest(errs) - 1
        hits == {i \in 1..last :
                    /\ NameMatches(ns[i].key)
                    /\ TruthyTok(ns[i].value)
                    /\ ValidTok(ns[i].value)}
    IN  IF hits = {} THEN NoToken ELSE ns[Lowest(hits)].value

\* The scan taking sessionStorage before localStorage.
ExtractFromStorageSessionFirst(st) ==
    IF TruthyTok(FirstFixed(st.session)) THEN FirstFixed(st.session)
    ELSE IF TruthyTok(FirstFixed(st.local)) THEN FirstFixed(st.local)
    ELSE IF TruthyTok(FirstHeuristic(st.session)) THEN FirstHeuristic(st.session)
    ELSE FirstHeuristic(st.local)

\* Lines 147-216.
ExtractFromStorage(st) ==
    IF TruthyTok(FirstFixed(st.local)) THEN FirstFixed(st.local)
    ELSE IF TruthyTok(FirstFixed(st.session)) THEN FirstFixed(st.session)
    ELSE IF TruthyTok(FirstHeuristic(st.local)) THEN FirstHeuristic(st.local)
    ELSE FirstHeuristic(st.session)

(***************************************************************************)
(* _extract_from_storage called on its own, on every storage of up to      *)
(* MaxKeys entries per namespace, the read of any of which may raise.      *)
(***************************************************************************)
ScanNamespaces(n) ==
    { ns \in [1..n -> [key : StoreKeys, value : StoreValues \cup {ReadError}]] :
        \A i \in 1..n, j \in 1..n : i /= j => ns[i].key /= ns[j].key }

ScanStorages(i, j) == [local : ScanNamespaces(i), session : ScanNamespaces(j)]

\* The page the scan is given, with the other subsystems at rest.
InitStorage ==
    /\ s_pc = "call"
    /\ \E i \in 0..MaxKeys, j \in 0..MaxKeys : s_storage \in ScanStorages(i, j)
    /\ s_ret = NoToken
    /\ pc = "idle" /\ limit = 1 /\ page = 1
    /\ total_pages = None /\ total_items = None
    /\ all_items = <<>> /\ gzip_bound = FALSE
    /\ result = Running /\ log = <<>>
    /\ h_user_id = PyStr(<<>>) /\ user_data = PyNone /\ sent = <<>>
    /\ v_pc = "idle" /\ v_token = PyNone /\ v_ret = FALSE
    /\ apc = "idle" /\ variant = "api" /\ browser = "none"
    /\ token = NoToken /\ request_found = FALSE /\ user_id = PyNone
    /\ listeners = {} /\ net_token = NoToken /\ net_found = FALSE
    /\ caller = "none" /\ ea_ret = NoToken /\ ea_scanned = FALSE
    /\ storage = [local |-> <<>>, session |-> <<>>]
    /\ outcome = [kind |-> "running", tuple |-> FALSE, token |-> NoToken, user_id |-> PyNone,
                  error_logged |-> FALSE]
    /\ prompts = 0 /\ scans = 0 /\ seen = <<>> /\ nreq = 0
    /\ fb_pc = "idle" /\ fb_args = [token |-> "None", user_id |-> PyNone]
    /\ fb_token = "None" /\ fb_user_id = PyNone /\ fb_extracted = PyNone
    /\ fb_ret = "running"

\* One call of _extract_from_storage (lines 137-216).
Scan ==
    /\ s_pc = "call"
    /\ s_ret' = ExtractFromStorage(s_storage)
    /\ s_pc' = "done"
    /\ s_storage' = s_storage
    /\ UNCHANGED <<hvars, vvars, avars, fvars>>

NextStorage == Scan

SpecStorage == InitStorage /\ [][NextStorage]_vars

(***************************************************************************)
(* Token acquisition: get_token_from_playwright of api_request.py          *)
(* (variant "api", lines 117-275) and of get_token.py (variant "get",      *)
(* lines 43-98), and extract_auth_token / _extract_from_network of         *)
(* extract_token.py, which both call.                                      *)
(***************************************************************************)
\* What extract_user_id(page) may return: None or an id found in the page.
UserIds == {PyNone, PyStr(<<"u", "1">>)}

\* The requests the page may issue: to the API with any authorization header
\* or none, and to another host.
Requests ==
    { [api |-> TRUE, auth |-> h] : h \in {NoToken, "jwtA", "jwtB", "junk"} }
    \cup { [api |-> FALSE, auth |-> "jwtA"] }

Pending ==
    [kind |-> "running", tuple |-> FALSE, token |-> NoToken, user_id |-> PyNone,
     error_logged |-> FALSE]

\* return (token, user_id)
ReturnPair(t, u) ==
    [kind |-> "return", tuple |-> TRUE, token |-> t, user_id |-> u, error_logged |-> FALSE]

\* return token
ReturnToken(t) ==
    [kind |-> "return", tuple |-> FALSE, token |-> t, user_id |-> PyNone, error_logged |-> FALSE]

\* An exception leaves the function.
Raised ==
    [kind |-> "raise", tuple |-> FALSE, token |-> NoToken, user_id |-> PyNone,
     error_logged |-> FALSE]

\* The state before get_token_from_playwright runs, for either variant and
\* every storage content, with the other two subsystems at rest.
InitAcq ==
    /\ variant \in {"api", "get"}
    /\ apc = (IF variant = "api" THEN "import" ELSE "launch")
    /\ browser = "none"
    /\ token = "None" /\ request_found = FALSE /\ user_id = PyNone
    /\ listeners = {} /\ net_token = "None" /\ net_found = FALSE
    /\ caller = "none" /\ ea_ret = "None" /\ ea_scanned = FALSE
    /\ storage \in Storages
    /\ outcome = Pending /\ prompts = 0 /\ scans = 0 /\ seen = <<>> /\ nreq = 0
    /\ pc = "idle" /\ limit = 1 /\ page = 1
    /\ total_pages = None /\ total_items = None
    /\ all_items = <<>> /\ gzip_bound = FALSE
    /\ result = Running /\ log = <<>>
    /\ h_user_id = PyStr(<<>>) /\ user_data = PyNone /\ sent = <<>>
    /\ v_pc = "idle" /\ v_token = PyNone /\ v_ret = FALSE
    /\ s_pc = "idle" /\ s_storage = [local |-> <<>>, session |-> <<>>] /\ s_ret = "None"
    /\ fb_pc = "idle" /\ fb_args = [token |-> "None", user_id |-> PyNone]
    /\ fb_token = "None" /\ fb_user_id = PyNone /\ fb_extracted = PyNone
    /\ fb_ret = "running"

\* What the acquisition does not touch.
OthersA == <<hvars, vvars, svars, fvars>>

\* "finally: browser.close()" (api 274-275, get 97-98), then the return.
Finish(val) ==
    /\ apc' = "done"
    /\ browser' = "closed"
    /\ outcome' = val

\* The except clause (api 271-273, get 94-96): logger.error, and the return
\* of (None, None) or None.
Except ==
    Finish([(IF variant = "api" THEN ReturnPair(NoToken, PyNone) ELSE ReturnToken(NoToken))
                EXCEPT !.error_logged = TRUE])

\* An exception raised outside the try statement leaves the function.
Propagate ==
    /\ apc' = "done"
    /\ browser' = browser
    /\ outcome' = Raised

\* api 125-132: the imports; on ImportError "return None".
ImportModules ==
    /\ apc = "import"
    /\ UNCHANGED OthersA
    /\ UNCHANGED <<variant, token, request_found, user_id, listeners, net_token, net_found,
                   caller, ea_ret, ea_scanned, storage, prompts, scans, seen, nreq, browser>>
    /\ \E ok \in BOOLEAN :
        IF ok THEN apc' = "launch" /\ outcome' = outcome
        ELSE apc' = "done" /\ outcome' = ReturnToken(NoToken)

\* api 139, get 55: p.chromium.launch, before the try statement.
Launch ==
    /\ apc = "launch"
    /\ UNCHANGED OthersA
    /\ UNCHANGED <<variant, token, request_found, user_id, listeners, net_token, net_found,
                   caller, ea_ret, ea_scanned, storage, prompts, scans, seen, nreq>>
    /\ \E ok \in BOOLEAN :
        IF ok THEN apc' = "new_context" /\ browser' = "open" /\ outcome' = outcome
        ELSE Propagate

\* api 140, get 56: browser.new_context, before the try statement.
NewContext ==
    /\ apc = "new_context"
    /\ UNCHANGED OthersA
    /\ UNCHANGED <<variant, token, request_found, user_id, listeners, net_token, net_found,
                   caller, ea_ret, ea_scanned, storage, prompts, scans, seen, nreq>>
    /\ \E ok \in BOOLEAN :
        IF ok THEN apc' = "new_page" /\ browser' = browser /\ outcome' = outcome
        ELSE Propagate

\* api 141, get 57: context.new_page, before the try statement.
NewPage ==
    /\ apc = "new_page"
    /\ UNCHANGED OthersA
    /\ UNCHANGED <<variant, token, request_found, user_id, listeners, net_token, net_found,
                   caller, ea_ret, ea_scanned, storage, prompts, scans, seen, nreq>>
    /\ \E ok \in BOOLEAN :
        IF ok THEN apc' = "goto_login" /\ browser' = browser /\ outcome' = outcome
        ELSE Propagate

\* GotoLogin without the second attempt.
GotoLoginNoRetry ==
    /\ apc = "goto_login"
    /\ UNCHANGED OthersA
    /\ UNCHANGED <<variant, token, request_found, user_id, listeners, net_token, net_found,
                   caller, ea_ret, ea_scanned, storage, prompts, scans, seen, nreq>>
    /\ \E ok \in BOOLEAN :
        IF ok THEN apc' = "input_login" /\ browser' = browser /\ outcome' = outcome
        ELSE Except

\* api 146-149, get 62: page.goto(LOGIN_URL).
GotoLogin ==
    /\ apc = "goto_login"
    /\ UNCHANGED OthersA
    /\ UNCHANGED <<variant, token, request_found, user_id, listeners, net_token, net_found,
                   caller, ea_ret, ea_scanned, storage, prompts, scans, seen, nreq>>
    /\ \E ok \in BOOLEAN :
        IF ok THEN apc' = "input_login" /\ browser' = browser /\ outcome' = outcome
        ELSE IF variant = "api"
        THEN apc' = "goto_login_retry" /\ browser' = browser /\ outcome' = outcome
        ELSE Except

\* api 150: the second page.goto(LOGIN_URL), with wait_until='load'.
GotoLoginRetry ==
    /\ apc = "goto_login_retry"
    /\ UNCHANGED OthersA
    /\ UNCHANGED <<variant, token, request_found, user_id, listeners, net_token, net_found,
                   caller, ea_ret, ea_scanned, storage, prompts, scans, seen, nreq>>
    /\ \E ok \in BOOLEAN :
        IF ok THEN apc' = "input_login" /\ browser' = browser /\ outcome' = outcome
        ELSE Except

\* api 153-157, get 24-30: input("Press Enter after you have logged in...").
InputLogin ==
    /\ apc = "input_login"
    /\ UNCHANGED OthersA
    /\ UNCHANGED <<variant, token, request_found, user_id, listeners, net_token, net_found,
                   caller, ea_ret, ea_scanned, storage, scans, seen, nreq>>
    /\ prompts' = prompts + 1
    /\ \E ok \in BOOLEAN :
        IF ok THEN apc' = "wait_selector" /\ browser' = browser /\ outcome' = outcome
        ELSE Except

\* api 160-164, get 33-40: page.wait_for_selector; its timeout is caught,
\* another exception is not.
WaitForSelector ==
    /\ apc = "wait_selector"
    /\ UNCHANGED OthersA
    /\ UNCHANGED <<variant, token, request_found, user_id, listeners, net_token, net_found,
                   caller, ea_ret, ea_scanned, storage, prompts, scans, seen, nreq>>
    /\ \E r \in {"found", "timeout", "error"} :
        IF r /= "error"
        THEN /\ apc' = (IF variant = "api" THEN "page_on" ELSE "goto_home")
             /\ browser' = browser /\ outcome' = outcome
        ELSE Except

\* api 171-189: the locals of the inline handler, and page.on.
PageOn ==
    /\ apc = "page_on"
    /\ UNCHANGED OthersA
    /\ UNCHANGED <<variant, user_id, net_token, net_found, caller, ea_ret, ea_scanned,
                   storage, prompts, scans, nreq, browser, outcome>>
    /\ token' = NoToken
    /\ request_found' = FALSE
    /\ listeners' = listeners \cup {"inline"}
    /\ seen' = <<>>
    /\ apc' = "uid1"

\* api 194: user_id = extract_user_id(page).
ExtractUserId1 ==
    /\ apc = "uid1"
    /\ UNCHANGED OthersA
    /\ UNCHANGED <<variant, token, request_found, listeners, net_token, net_found, caller,
                   ea_ret, ea_scanned, storage, prompts, scans, seen, nreq, browser, outcome>>
    /\ user_id' \in UserIds
    /\ apc' = "goto_home"

\* api 197-201: page.goto of the homepage, an exception is logged; get 72:
\* the same call, an exception reaches the except clause.
GotoHome ==
    /\ apc = "goto_home"
    /\ UNCHANGED OthersA
    /\ UNCHANGED <<variant, token, request_found, user_id, listeners, net_token, net_found,
                   ea_ret, ea_scanned, storage, prompts, scans, seen, nreq>>
    /\ \E ok \in BOOLEAN :
        IF variant = "api"
        THEN apc' = "uid2" /\ caller' = caller /\ browser' = browser /\ outcome' = outcome
        ELSE IF ok
        THEN apc' = "ea_on" /\ caller' = "first" /\ browser' = browser /\ outcome' = outcome
        ELSE caller' = caller /\ Except

\* api 204-205.
ExtractUserId2 ==
    /\ apc = "uid2"
    /\ UNCHANGED OthersA
    /\ UNCHANGED <<variant, token, request_found, listeners, net_token, net_found, caller,
                   ea_ret, ea_scanned, storage, prompts, scans, seen, nreq, browser, outcome>>
    /\ IF TruthyVal(user_id) THEN user_id' = user_id ELSE user_id' \in UserIds
    /\ apc' = "goto_shelf"

\* api 208-221: page.goto of the bookshelf when user_id is known, an
\* exception is logged; then time.sleep(5).
GotoShelf ==
    /\ apc = "goto_shelf"
    /\ UNCHANGED OthersA
    /\ UNCHANGED <<variant, token, request_found, user_id, listeners, net_token, net_found,
                   caller, ea_ret, ea_scanned, storage, prompts, scans, seen, nreq, browser,
                   outcome>>
    /\ apc' = "window"

\* api 223-230: the wait for the handler, which ends when it has found a
\* token or when 30 seconds have passed.
EndWindow ==
    /\ apc = "window"
    /\ UNCHANGED OthersA
    /\ UNCHANGED <<variant, token, request_found, user_id, listeners, net_token, net_found,
                   caller, ea_ret, ea_scanned, storage, prompts, scans, seen, nreq, browser,
                   outcome>>
    /\ apc' = "remove"

\* api 232-236.
RemoveListener ==
    /\ apc = "remove"
    /\ UNCHANGED OthersA
    /\ UNCHANGED <<variant, token, request_found, user_id, net_token, net_found, caller,
                   ea_ret, ea_scanned, storage, prompts, scans, seen, nreq, browser, outcome>>
    /\ listeners' = listeners \ {"inline"}
    /\ apc' = "storage"

\* The inline handler accepting any non-empty authorization header.
InlineAcceptsAny(req) == req.api /\ TruthyTok(req.auth)

\* api 180-183: what the inline handler accepts.
InlineAccepts(req) == req.api /\ TruthyTok(req.auth) /\ ValidTok(req.auth)

\* api 174-186: handle_request, called by the browser for a request.
HandleRequestInline ==
    /\ "inline" \in listeners
    /\ nreq < MaxRequests
    /\ UNCHANGED OthersA
    /\ UNCHANGED <<apc, variant, user_id, listeners, net_token, net_found, caller, ea_ret,
                   ea_scanned, storage, prompts, scans, browser, outcome>>
    /\ nreq' = nreq + 1
    /\ \E req \in Requests :
        /\ seen' = (IF req.api /\ TruthyTok(req.auth) THEN Append(seen, req.auth) ELSE seen)
        /\ IF InlineAccepts(req)
           THEN token' = req.auth /\ request_found' = TRUE
           ELSE token' = token /\ request_found' = request_found

\* StorageFallback without the call of _extract_from_storage.
StorageFallbackSkipped ==
    /\ apc = "storage"
    /\ UNCHANGED OthersA
    /\ UNCHANGED <<variant, request_found, user_id, listeners, net_token, net_found, caller,
                   ea_ret, ea_scanned, storage, prompts, seen, nreq, browser, outcome,
                   token, scans>>
    /\ apc' = "manual"

\* api 238-244: the storage fallback.
StorageFallback ==
    /\ apc = "storage"
    /\ UNCHANGED OthersA
    /\ UNCHANGED <<variant, request_found, user_id, listeners, net_token, net_found, caller,
                   ea_ret, ea_scanned, storage, prompts, seen, nreq, browser, outcome>>
    /\ IF TruthyTok(token)
       THEN token' = token /\ scans' = scans
       ELSE LET v == ExtractFromStorage(storage)
            IN  /\ token' = (IF TruthyTok(v) /\ ~ValidTok(v) THEN NoToken ELSE v)
                /\ scans' = scans + 1
    /\ apc' = "manual"

\* ManualNavigation prompting and calling extract_auth_token whatever the
\* token is.
ManualNavigationAlways ==
    /\ apc = "manual"
    /\ UNCHANGED OthersA
    /\ UNCHANGED <<variant, token, request_found, user_id, listeners, net_token, net_found,
                   ea_ret, ea_scanned, storage, scans, seen, nreq>>
    /\ prompts' = prompts + 1
    /\ \E ok \in BOOLEAN :
        IF ok
        THEN apc' = "ea_on" /\ caller' = "manual" /\ browser' = browser /\ outcome' = outcome
        ELSE caller' = caller /\ Except

\* api 246-252: without a token, the second input() and the call of
\* extract_auth_token; with one, on to line 257.
ManualNavigation ==
    /\ apc = "manual"
    /\ UNCHANGED OthersA
    /\ UNCHANGED <<variant, token, request_found, user_id, listeners, net_token, net_found,
                   ea_ret, ea_scanned, storage, scans, seen, nreq>>
    /\ IF TruthyTok(token)
       THEN /\ apc' = "final_uid"
            /\ UNCHANGED <<prompts, caller, browser, outcome>>
       ELSE /\ prompts' = prompts + 1
            /\ \E ok \in BOOLEAN :
                IF ok
                THEN apc' = "ea_on" /\ caller' = "manual" /\ browser' = browser
                     /\ outcome' = outcome
                ELSE caller' = caller /\ Except

\* extract_token 96-114: the locals of _extract_from_network, and page.on.
NetworkOn ==
    /\ apc = "ea_on"
    /\ UNCHANGED OthersA
    /\ UNCHANGED <<variant, token, request_found, user_id, caller, ea_ret, storage, prompts,
                   scans, nreq, browser, outcome>>
    /\ net_token' = NoToken
    /\ net_found' = FALSE
    /\ listeners' = listeners \cup {"network"}
    /\ seen' = <<>>
    /\ ea_scanned' = FALSE
    /\ apc' = "ea_window"

\* extract_token 114 not reached yet: a request that the navigation before
\* the call of extract_auth_token (the human's, during the input() of api 249
\* or get 88; page.goto at get 72) makes the page issue while no handler is
\* attached. No handler is called for it.
RequestBeforeListener ==
    /\ apc = "ea_on"
    /\ listeners = {}
    /\ nreq < MaxRequests
    /\ UNCHANGED OthersA
    /\ UNCHANGED <<apc, variant, token, request_found, user_id, listeners, net_token,
                   net_found, caller, ea_ret, ea_scanned, storage, prompts, scans, seen,
                   browser, outcome>>
    /\ nreq' = nreq + 1

\* extract_token 99-111: handle_request of _extract_from_network.
HandleRequestNetwork ==
    /\ "network" \in listeners
    /\ nreq < MaxRequests
    /\ UNCHANGED OthersA
    /\ UNCHANGED <<apc, variant, token, request_found, user_id, listeners, caller, ea_ret,
                   ea_scanned, storage, prompts, scans, browser, outcome>>
    /\ nreq' = nreq + 1
    /\ \E req \in Requests :
        /\ seen' = (IF req.api /\ TruthyTok(req.auth) THEN Append(seen, req.auth) ELSE seen)
        /\ IF req.api /\ TruthyTok(req.auth)
           THEN net_token' = req.auth /\ net_found' = TRUE
           ELSE net_token' = net_token /\ net_found' = net_found

\* NetworkEndWindow leaving the listener attached.
NetworkEndWindowLeak ==
    /\ apc = "ea_window"
    /\ UNCHANGED OthersA
    /\ UNCHANGED <<variant, token, request_found, user_id, net_token, net_found, caller,
                   ea_ret, ea_scanned, storage, prompts, scans, seen, nreq, browser, outcome,
                   listeners>>
    /\ apc' = "ea_check"

\* extract_token 116-134: the wait ends, on a found token or on the timeout;
\* the listener is removed and token is returned (125-127). An exception
\* inside the try statement is caught: the listener is removed and None is
\* returned (128-134).
NetworkEndWindow ==
    /\ apc = "ea_window"
    /\ UNCHANGED OthersA
    /\ UNCHANGED <<variant, token, request_found, user_id, net_found, caller,
                   ea_ret, ea_scanned, storage, prompts, scans, seen, nreq, browser, outcome>>
    /\ listeners' = listeners \ {"network"}
    /\ \E r \in {"ended", "error"} :
        net_token' = (IF r = "error" THEN NoToken ELSE net_token)
    /\ apc' = "ea_check"

\* extract_auth_token taking the network value without validating it.
AcceptsAny(v) == TruthyTok(v)

\* extract_token 63 and 74: what extract_auth_token accepts from a channel.
Accepts(v) == TruthyTok(v) /\ ValidTok(v)

\* extract_token 61-68: the value of the network channel is returned when
\* it is accepted.
CheckNetwork ==
    /\ apc = "ea_check"
    /\ UNCHANGED OthersA
    /\ UNCHANGED <<variant, token, request_found, user_id, listeners, net_token, net_found,
                   caller, ea_scanned, storage, prompts, scans, seen, nreq, browser, outcome>>
    /\ IF Accepts(net_token)
       THEN ea_ret' = net_token /\ apc' = "ea_return"
       ELSE ea_ret' = ea_ret /\ apc' = "ea_storage"

\* extract_token 70-82: the storage channel.
ScanStorage ==
    /\ apc = "ea_storage"
    /\ UNCHANGED OthersA
    /\ UNCHANGED <<variant, token, request_found, user_id, listeners, net_token, net_found,
                   caller, storage, prompts, seen, nreq, browser, outcome>>
    /\ scans' = scans + 1
    /\ ea_scanned' = TRUE
    /\ LET v == ExtractFromStorage(storage)
       IN  ea_ret' = (IF Accepts(v) THEN v ELSE NoToken)
    /\ apc' = "ea_return"

\* api 252-255: token = extract_auth_token(...), and user_id once more.
ReturnToManual ==
    /\ apc = "ea_return" /\ caller = "manual"
    /\ UNCHANGED OthersA
    /\ UNCHANGED <<variant, request_found, listeners, net_token, net_found, caller, ea_ret,
                   ea_scanned, storage, prompts, scans, seen, nreq, browser, outcome>>
    /\ token' = ea_ret
    /\ IF TruthyVal(user_id) THEN user_id' = user_id ELSE user_id' \in UserIds
    /\ apc' = "final_uid"

\* api 257-269: user_id once more, and the return.
ReturnResult ==
    /\ apc = "final_uid"
    /\ UNCHANGED OthersA
    /\ UNCHANGED <<variant, token, request_found, listeners, net_token, net_found, caller,
                   ea_ret, ea_scanned, storage, prompts, scans, seen, nreq>>
    /\ IF TruthyVal(user_id) THEN user_id' = user_id ELSE user_id' \in UserIds
    /\ Finish(IF TruthyTok(token) /\ TruthyVal(user_id') THEN ReturnPair(token, user_id')
              ELSE IF TruthyTok(token) THEN ReturnPair(token, PyNone)
              ELSE ReturnPair(NoToken, PyNone))

\* get 80-88: the first extract_auth_token; its token is returned, or the
\* second input() is reached.
ReturnToFirst ==
    /\ apc = "ea_return" /\ caller = "first"
    /\ UNCHANGED OthersA
    /\ UNCHANGED <<variant, request_found, user_id, listeners, net_token, net_found, caller,
                   ea_ret, ea_scanned, storage, prompts, scans, seen, nreq>>
    /\ token' = ea_ret
    /\ IF TruthyTok(ea_ret)
       THEN Finish(ReturnToken(ea_ret))
       ELSE apc' = "input2" /\ browser' = browser /\ outcome' = outcome

\* get 86-91: the second input() and the call of extract_auth_token.
InputAgain ==
    /\ apc = "input2"
    /\ UNCHANGED OthersA
    /\ UNCHANGED <<variant, token, request_found, user_id, listeners, net_token, net_found,
                   ea_ret, ea_scanned, storage, scans, seen, nreq>>
    /\ prompts' = prompts + 1
    /\ \E ok \in BOOLEAN :
        IF ok
        THEN apc' = "ea_on" /\ caller' = "second" /\ browser' = browser /\ outcome' = outcome
        ELSE caller' = caller /\ Except

\* get 91-92: return extract_auth_token(...).
ReturnToSecond ==
    /\ apc = "ea_return" /\ caller = "second"
    /\ UNCHANGED OthersA
    /\ UNCHANGED <<variant, request_found, user_id, listeners, net_token, net_found, caller,
                   ea_ret, ea_scanned, storage, prompts, scans, seen, nreq>>
    /\ token' = ea_ret
    /\ Finish(ReturnToken(ea_ret))

NextAcq ==
    \/ ImportModules
    \/ Launch
    \/ NewContext
    \/ NewPage
    \/ GotoLogin
    \/ GotoLoginRetry
    \/ InputLogin
    \/ WaitForSelector
    \/ PageOn
    \/ ExtractUserId1
    \/ GotoHome
    \/ ExtractUserId2
    \/ GotoShelf
    \/ EndWindow
    \/ RemoveListener
    \/ HandleRequestInline
    \/ StorageFallback
    \/ ManualNavigation
    \/ NetworkOn
    \/ RequestBeforeListener
    \/ HandleRequestNetwork
    \/ NetworkEndWindow
    \/ CheckNetwork
    \/ ScanStorage
    \/ ReturnToManual
    \/ ReturnResult
    \/ ReturnToFirst
    \/ InputAgain
    \/ ReturnToSecond

SpecAcq == InitAcq /\ [][NextAcq]_vars

\* The acquisition keeps running: every input() returns, every browser call
\* returns or raises, and every wait loop reaches its timeout.
SpecAcqLive == InitAcq /\ [][NextAcq]_vars /\ WF_vars(NextAcq)

NextValidator == Validate

SpecValidator == InitValidator /\ [][NextValidator]_vars

(***************************************************************************)
(* fetch_bookshelf_data (api_request.py, lines 586-645): the acquisition   *)
(* when a token or a user_id is missing, then the harvest.                 *)
(***************************************************************************)
\* The token and user_id arguments: each given or not.
FetchArgs == [token : {NoToken, "jwtA"}, user_id : {PyNone, ExplicitUserId}]

\* The call, with get_token_from_playwright and fetch_all_pages not called
\* yet and the other subsystems at rest; limit is MaxLimit. A browser, and so a
\* storage, is there only when get_token_from_playwright will be called.
InitFetch ==
    /\ fb_pc = "start"
    /\ fb_args \in FetchArgs
    /\ fb_token = fb_args.token /\ fb_user_id = fb_args.user_id
    /\ fb_extracted = PyNone /\ fb_ret = "running"
    /\ pc = "idle" /\ limit = MaxLimit /\ page = 1
    /\ total_pages = None /\ total_items = None
    /\ all_items = <<>> /\ gzip_bound = FALSE
    /\ result = Running /\ log = <<>>
    /\ h_user_id = PyStr(<<>>) /\ user_data = PyNone /\ sent = <<>>
    /\ apc = "idle" /\ variant = "api" /\ browser = "none"
    /\ token = NoToken /\ request_found = FALSE /\ user_id = PyNone
    /\ listeners = {} /\ net_token = NoToken /\ net_found = FALSE
    /\ caller = "none" /\ ea_ret = NoToken /\ ea_scanned = FALSE
    /\ storage \in (IF TruthyTok(fb_args.token) /\ TruthyVal(fb_args.user_id)
                    THEN {[local |-> <<>>, session |-> <<>>]}
                    ELSE Storages)
    /\ outcome = Pending /\ prompts = 0 /\ scans = 0 /\ seen = <<>> /\ nreq = 0
    /\ v_pc = "idle" /\ v_token = PyNone /\ v_ret = FALSE
    /\ s_pc = "idle" /\ s_storage = [local |-> <<>>, session |-> <<>>] /\ s_ret = NoToken

\* What fetch_bookshelf_data does not touch.
OthersF == <<vvars, svars>>

\* NeedsAcquisition asking for the browser whatever the caller gave.
NeedsAcquisitionAlways(t, u) == TRUE

\* Line 602: "not token or not user_id".
NeedsAcquisition(t, u) == ~TruthyTok(t) \/ ~TruthyVal(u)

\* Line 602: get_token_from_playwright is called when the token or the
\* user_id is missing.
FetchStart ==
    /\ fb_pc = "start"
    /\ UNCHANGED OthersF
    /\ UNCHANGED <<hvars, fb_args, fb_token, fb_user_id, fb_extracted, fb_ret>>
    /\ UNCHANGED <<variant, browser, token, request_found, user_id, listeners, net_token,
                   net_found, caller, ea_ret, ea_scanned, storage, outcome, prompts, scans,
                   seen, nreq>>
    /\ IF NeedsAcquisition(fb_token, fb_user_id)
       THEN fb_pc' = "acquire" /\ apc' = "import"
       ELSE fb_pc' = "call_fetch" /\ apc' = apc

\* get_token_from_playwright has returned: its frame and its browser are
\* gone.
AcquisitionGone ==
    /\ apc' = "idle" /\ variant' = variant /\ browser' = "none"
    /\ token' = NoToken /\ request_found' = FALSE /\ user_id' = PyNone
    /\ listeners' = {} /\ net_token' = NoToken /\ net_found' = FALSE
    /\ caller' = "none" /\ ea_ret' = NoToken /\ ea_scanned' = FALSE
    /\ storage' = [local |-> <<>>, session |-> <<>>]
    /\ outcome' = Pending /\ prompts' = 0 /\ scans' = 0 /\ seen' = <<>> /\ nreq' = 0

\* AcquisitionFailed counting a pair without user_id as a failure.
AcquisitionFailedWithoutUserId(o) == ~o.tuple \/ o.token = NoToken \/ o.user_id = PyNone

\* Line 605: "not result or result[0] is None".
AcquisitionFailed(o) == ~o.tuple \/ o.token = NoToken

\* Lines 603-618: the result of get_token_from_playwright. An exception it
\* raised leaves fetch_bookshelf_data, which has no try statement; None and
\* (None, ...) return None; otherwise the missing token and user_id are
\* taken from the pair.
FetchAfterAcquisition ==
    /\ fb_pc = "acquire" /\ apc = "done"
    /\ UNCHANGED OthersF
    /\ UNCHANGED <<hvars, fb_args>>
    /\ IF outcome.kind = "raise"
       THEN /\ fb_pc' = "done" /\ fb_ret' = "raise"
            /\ UNCHANGED <<avars, fb_token, fb_user_id, fb_extracted>>
       ELSE IF AcquisitionFailed(outcome)
       THEN /\ fb_pc' = "done" /\ fb_ret' = "None"
            /\ UNCHANGED <<avars, fb_token, fb_user_id, fb_extracted>>
       ELSE /\ fb_extracted' = outcome.user_id
            /\ fb_token' = (IF ~TruthyTok(fb_token) THEN outcome.token ELSE fb_token)
            /\ fb_user_id' = (IF ~TruthyVal(fb_user_id) THEN outcome.user_id ELSE fb_user_id)
            /\ fb_pc' = "call_fetch" /\ fb_ret' = fb_ret
            /\ AcquisitionGone

\* Line 624: fetch_all_pages(token, user_id or "", ...).
FetchCall ==
    /\ fb_pc = "call_fetch"
    /\ UNCHANGED OthersF
    /\ UNCHANGED <<avars, fb_args, fb_token, fb_user_id, fb_extracted, fb_ret>>
    /\ UNCHANGED <<limit, page, total_pages, total_items, all_items, gzip_bound, result, log,
                   user_data, sent>>
    /\ h_user_id' = (IF TruthyVal(fb_user_id) THEN fb_user_id ELSE PyStr(<<>>))
    /\ pc' = "loop"
    /\ fb_pc' = "fetch"

\* FetchReturn taking the id of the response whatever the user_id is.
ResolveUserIdAlways(uid, u) == IF TruthyVal(u) THEN u ELSE uid

\* Lines 627-630: the id of the response is taken when there is no user_id.
ResolveUserId(uid, u) == IF ~TruthyVal(uid) /\ TruthyVal(u) THEN u ELSE uid

\* Lines 626-645: data is returned, or None when fetch_all_pages gave None.
FetchReturn ==
    /\ fb_pc = "fetch" /\ pc = "done"
    /\ UNCHANGED OthersF
    /\ UNCHANGED <<hvars, avars, fb_args, fb_token, fb_extracted>>
    /\ IF result.kind = "dict"
       THEN fb_user_id' = ResolveUserId(fb_user_id, user_data) /\ fb_ret' = "data"
       ELSE fb_user_id' = fb_user_id /\ fb_ret' = "None"
    /\ fb_pc' = "done"

\* fetch_bookshelf_data, with get_token_from_playwright of api_request.py
\* and fetch_all_pages running inside it.
NextFetch ==
    \/ FetchStart
    \/ FetchAfterAcquisition
    \/ FetchCall
    \/ FetchReturn
    \/ ImportModules
    \/ Launch
    \/ NewContext
    \/ NewPage
    \/ GotoLogin
    \/ GotoLoginRetry
    \/ InputLogin
    \/ WaitForSelector
    \/ PageOn
    \/ ExtractUserId1
    \/ GotoHome
    \/ ExtractUserId2
    \/ GotoShelf
    \/ EndWindow
    \/ RemoveListener
    \/ HandleRequestInline
    \/ StorageFallback
    \/ ManualNavigation
    \/ NetworkOn
    \/ RequestBeforeListener
    \/ HandleRequestNetwork
    \/ NetworkEndWindow
    \/ CheckNetwork
    \/ ScanStorage
    \/ ReturnToManual
    \/ ReturnResult
    \/ RequestException
    \/ StatusNot200
    \/ EmptyBody
    \/ ParseFailure
    \/ NonDictData
    \/ ParseRecovered
    \/ Retry
    \/ PageParsed

SpecFetch == InitFetch /\ [][NextFetch]_vars

(***************************************************************************)
(* Properties of fetch_all_pages.                                          *)
(***************************************************************************)
Last == log[Len(log)]

\* The items the first k requests of the log put into the result, in order.
RECURSIVE Accumulated(_)
Accumulated(k) ==
    IF k = 0 THEN <<>>
    ELSE Accumulated(k - 1) \o
         (IF log[k].kind = "parsed" THEN Items(log[k].page, log[k].retry, log[k].n)
          ELSE <<>>)

\* A request answered with status 200 and a body that did not parse.
Unparsable(e) == ~e.retry /\ e.kind \in {"raise", "recovered"}

\* A request that failed: transport error, or an exception out of the loop body.
TransportError(e) == ~e.retry /\ e.kind \in {"exc", "non200"}

Failed(e) == ~e.retry /\ e.kind \in {"exc", "non200", "raise", "nondict"}

\* C1: page requests are issued in strictly increasing page order starting
\* at page 1; the only repeated page is the one retry, which repeats the
\* request just made for the last expected page, and there is at most one.
C1_PagesInOrder ==
    /\ (Len(log) >= 1 => log[1].page = 1 /\ ~log[1].retry)
    /\ \A i \in 1..(Len(log) - 1) :
        IF log[i + 1].retry
        THEN /\ log[i + 1].page = log[i].page
             /\ ~log[i].retry
             /\ log[i].page = total_pages
        ELSE log[i + 1].page > log[i].page
    /\ Cardinality({i \in 1..Len(log) : log[i].retry}) <= 1

\* C1 witness: a harvest that retried its last expected page and went on to
\* request a later page.
C1_Witness ==
    /\ Len(log) = 4
    /\ log[3].retry
    /\ log[4].page = 3

\* C2: a transport error on the request for page 1 returns None; the same
\* error on page 2 after page 1 was parsed returns a result whose items are
\* exactly page 1's items.
C2_FirstPageHardFailure ==
    (pc = "done" /\ Len(log) >= 1 /\ TransportError(Last)) =>
        /\ (Last.page = 1 => result = ReturnNone)
        /\ (Last.page = 2 /\ Len(log) = 2 /\ log[1].kind = "parsed" =>
                /\ result.kind = "dict"
                /\ result.items = Items(1, FALSE, log[1].n))

\* C2 witness: page 1 gave two items and the request for page 2 failed.
C2_Witness ==
    /\ pc = "done"
    /\ Len(log) = 2
    /\ log[1].kind = "parsed" /\ log[1].n = 2
    /\ log[2].kind = "non200"
    /\ Len(result.items) = 2

\* The premise of C3: so far every request was answered with a parsed page
\* of exactly k items, k being at least the requested page size, and page 1
\* advised total_pages = N and total_items = N * k.
FullPages(N, k) ==
    /\ Len(log) >= 1
    /\ k >= limit
    /\ \A i \in 1..Len(log) : ~log[i].retry /\ log[i].kind = "parsed" /\ log[i].n = k
    /\ total_pages = N
    /\ total_items = N * k

\* C3: with N pages of k items each advised and delivered, pages 1..N are
\* requested once each, in order, page N+1 is never requested, and the
\* harvest ends after page N with N*k items.
C3_StopsAtAdvisedTotal ==
    \A N \in 1..MaxPage, k \in 1..MaxLimit :
        FullPages(N, k) =>
            /\ Len(log) <= N
            /\ \A i \in 1..Len(log) : log[i].page = i
            /\ (pc = "done" <=> Len(log) = N)
            /\ (pc = "done" => result.kind = "dict" /\ Len(result.items) = N * k)
            /\ (pc /= "done" => pc = "loop" /\ page = Len(log) + 1)

\* C3 witness: three pages of two items, limit 2, six items returned.
C3_Witness ==
    /\ FullPages(3, 2)
    /\ limit = 2
    /\ pc = "done"
    /\ Len(log) = 3
    /\ Len(result.items) = 6

\* C4: a parsed page with a non-empty item list shorter than the requested
\* page size is appended and is the last request of the harvest, whatever
\* page 1 advised.
C4_ShortPageStops ==
    \A i \in 1..Len(log) :
        (~log[i].retry /\ log[i].kind = "parsed" /\ log[i].n > 0 /\ log[i].n < limit) =>
            /\ i = Len(log)
            /\ pc = "done"
            /\ result.kind = "dict"
            /\ result.items = Accumulated(i)
            /\ Len(Accumulated(i)) = Len(Accumulated(i - 1)) + log[i].n

\* C4 witness: nothing advised, page 1 full, page 2 short.
C4_Witness ==
    /\ total_pages = None /\ total_items = None
    /\ limit = 2
    /\ Len(log) = 2
    /\ log[1].kind = "parsed" /\ log[1].n = 2
    /\ log[2].kind = "parsed" /\ log[2].n = 1
    /\ pc = "done"
    /\ Len(result.items) = 3

\* C5 as claimed: every unparsable body on the last expected page, with
\* items still missing, is followed by one retry of that page.
C5_RetryOnEveryParseFailure ==
    \A i \in 1..Len(log) :
        (/\ Unparsable(log[i])
         /\ RetryWanted(total_pages, total_items, log[i].page, Accumulated(i - 1))) =>
            \/ (i = Len(log) /\ pc = "retry")
            \/ (i < Len(log) /\ log[i + 1].retry /\ log[i + 1].page = log[i].page)

\* C6: a failure while handling a page after page 1 ends the harvest with a
\* result holding every item accumulated before it.
C6_LaterFailureKeepsItems ==
    (pc = "done" /\ Len(log) >= 1 /\ Failed(Last) /\ Last.page > 1) =>
        /\ result.kind = "dict"
        /\ result.items = Accumulated(Len(log) - 1)
        /\ result.items = all_items

\* C6 witness: two pages of items, then an exception on page 3.
C6_Witness ==
    /\ pc = "done"
    /\ Len(log) = 3
    /\ Last.kind \in {"raise", "nondict"}
    /\ Last.page = 3
    /\ Len(result.items) = 4

\* C17 as claimed: unless the response to the request for page 1 was parsed
\* into data, no later page is requested and fetch_all_pages returns None.
C17_FirstPageFatal ==
    (Len(log) >= 1 /\ log[1].kind /= "parsed") =>
        /\ \A i \in 1..Len(log) : log[i].page = 1
        /\ (pc = "done" => result = ReturnNone)

\* C18 as claimed: the total_pages of the result is the advised page count
\* when page 1 advised one, and the highest page number requested when it
\* advised none.
C18_ResolvedTotalPages ==
    (pc = "done" /\ result.kind = "dict") =>
        /\ (Truthy(total_pages) => result.total_pages = total_pages)
        /\ (total_pages = None => result.total_pages = Last.page)

\* C31: a retry request is for the advised last page, no request before it
\* is a retry, and every request after it is for a later page and is not a
\* retry.
C31_SingleRetry ==
    \A i \in 1..Len(log) :
        log[i].retry =>
            /\ log[i].page = total_pages
            /\ \A j \in 1..(i - 1) : ~log[j].retry
            /\ \A j \in (i + 1)..Len(log) : ~log[j].retry /\ log[j].page > log[i].page

\* C31 witness: the retry of page 2 gave no items, page 3 was requested and
\* its body, which did not parse either, was not retried.
C31_Witness ==
    /\ Len(log) = 4
    /\ log[3].retry /\ log[3].page = 2 /\ log[3].n = 0
    /\ log[4].page = 3 /\ log[4].kind = "recovered"
    /\ pc = "done"

\* C32: when page 1 was parsed and advised a positive total_pages = N, no
\* request was issued for a page greater than N + 1 and none is about to be.
C32_AtMostOnePagePastAdvised ==
    (Len(log) >= 1 /\ log[1].kind = "parsed" /\ Truthy(total_pages)) =>
        /\ \A i \in 1..Len(log) : log[i].page <= total_pages + 1
        /\ (pc /= "done" => page <= total_pages + 1)

\* C32 witness: two pages advised, page 3 requested after page 2 did not
\* yield a page, and the harvest ended on its failure.
C32_Witness ==
    /\ Len(log) = 3
    /\ log[1].kind = "parsed" /\ total_pages = 2
    /\ log[2].kind \in {"empty", "recovered"}
    /\ log[3].page = 3 /\ log[3].kind = "non200"
    /\ pc = "done"

\* C33: total_pages and total_items change only in the step that parses the
\* response to the first request, which is for page 1; no later response and
\* no retry response changes them.
C33_MetadataFromFirstPageOnly ==
    [][ (total_pages' /= total_pages \/ total_items' /= total_items) =>
            /\ pc = "loop" /\ page = 1 /\ log = <<>>
            /\ log' = <<Entry(1, FALSE, "parsed", log'[1].n)>> ]_vars

\* C33 witness: page 1 advised one item too few and no page count, page 2
\* was parsed, advising other totals, and the totals of page 1 are still
\* held.
C33_Witness ==
    /\ Len(log) = 2
    /\ log[1].kind = "parsed"
    /\ log[2].kind = "parsed" /\ log[2].page = 2
    /\ total_pages = None
    /\ total_items = MaxPage * MaxLimit - 1

\* The item lists of the parsed responses of a request history, one after
\* the other in request order.
RECURSIVE Concatenated(_)
Concatenated(lg) ==
    IF lg = <<>> THEN <<>>
    ELSE LET e == lg[Len(lg)]
         IN  Concatenated(SubSeq(lg, 1, Len(lg) - 1)) \o
             (IF e.kind = "parsed" THEN Items(e.page, e.retry, e.n) ELSE <<>>)

\* Items of an earlier page come first, and the items of one page are in
\* their response order, none twice.
InPageOrder(items) ==
    \A j \in 1..Len(items), k \in 1..Len(items) :
        j < k => \/ items[j].page < items[k].page
                 \/ /\ items[j].page = items[k].page
                    /\ items[j].retry = items[k].retry
                    /\ items[j].idx < items[k].idx

\* C34: after every step the accumulated sequence is the concatenation of
\* the item lists appended so far, in increasing page order and each in its
\* response order, and the sequence before the step is a prefix of it.
C34_AccumulatedInOrder ==
    [][ /\ all_items' = Concatenated(log')
        /\ InPageOrder(all_items')
        /\ Len(all_items') >= Len(all_items)
        /\ SubSeq(all_items', 1, Len(all_items)) = all_items ]_vars

\* C34 witness: three full pages of two items were appended.
C34_Witness ==
    /\ Len(all_items) = 6
    /\ all_items[1].page = 1 /\ all_items[3].page = 2
    /\ all_items[5] = [page |-> 3, retry |-> FALSE, idx |-> 1]
    /\ all_items[6] = [page |-> 3, retry |-> FALSE, idx |-> 2]

\* A parsed page that was appended.
Appended(e) == ~e.retry /\ e.kind = "parsed" /\ e.n > 0

\* C35: after a page of at least limit items was appended, with the
\* accumulated count below the advised total_items (or none advised) and the
\* page number below the advised total_pages (or none advised), the next
\* request is for the next page.
C35_FullPageContinues ==
    \A i \in 1..Len(log) :
        (/\ Appended(log[i])
         /\ log[i].n >= limit
         /\ ~(Truthy(total_items) /\ Len(Accumulated(i)) >= total_items)
         /\ ~(Truthy(total_pages) /\ log[i].page >= total_pages)) =>
            \/ i = Len(log) /\ pc = "loop" /\ page = log[i].page + 1
            \/ i < Len(log) /\ ~log[i + 1].retry /\ log[i + 1].page = log[i].page + 1

\* C35 witness: nothing advised, three pages of limit items appended, and
\* the next page about to be requested.
C35_Witness ==
    /\ total_pages = None /\ total_items = None
    /\ Len(log) = 3
    /\ \A i \in 1..3 : Appended(log[i]) /\ log[i].n = limit
    /\ pc = "loop" /\ page = 4

\* C36: None is returned only with the page counter at 1 and nothing
\* accumulated; with at least one item accumulated, what is returned is a
\* result holding the accumulated items.
C36_NoneOnlyOnFirstPage ==
    /\ (pc = "done" /\ result.kind = "None") => (page = 1 /\ all_items = <<>>)
    /\ (pc = "done" /\ all_items /= <<>>) =>
            (result.kind = "dict" /\ result.items = all_items)

\* C36 witness: the request for page 2 raised with one item accumulated,
\* and a result holding that item was returned.
C36_Witness ==
    /\ pc = "done"
    /\ Len(log) = 2 /\ log[2].kind = "exc" /\ page = 2
    /\ Len(all_items) = 1
    /\ result.kind = "dict" /\ result.items = all_items

\* C28 as claimed: after a body that did not parse, if the advised
\* total_items was met the harvest has ended with the accumulated items;
\* otherwise the next request is for the next page (or is the retry of the
\* last expected page).
C28_ParseFailureSkipsPage ==
    \A i \in 1..Len(log) :
        Unparsable(log[i]) =>
            IF ReachedTotal(total_items, Accumulated(i - 1))
            THEN /\ i = Len(log) /\ pc = "done"
                 /\ result.kind = "dict" /\ result.items = Accumulated(i - 1)
            ELSE \/ i = Len(log) /\ pc = "retry"
                 \/ i = Len(log) /\ pc = "loop" /\ page = log[i].page + 1
                 \/ i < Len(log) /\ (log[i + 1].retry \/ log[i + 1].page = log[i].page + 1)

\* A request answered with status 200 and an empty body.
EmptyResponse(e) == ~e.retry /\ e.kind = "empty"

EmptyItemList(e) == ~e.retry /\ e.kind = "parsed" /\ e.n = 0

ItemsKept(e) ==
    \A k \in 1..e.n :
        \E j \in 1..Len(all_items) : all_items[j] = [page |-> e.page, retry |-> FALSE, idx |-> k]

\* C24 as claimed: a page whose body failed response.json() and was parsed
\* after manual decompression has its items in the accumulated sequence,
\* and when it is page 1 its total_pages and total_items are taken.
C24_RecoveredPageProcessed ==
    \A i \in 1..Len(log) :
        (~log[i].retry /\ log[i].kind = "recovered") =>
            /\ ItemsKept(log[i])
            /\ (log[i].page = 1 => total_pages = MaxPage /\ total_items = MaxPage)

\* C23 as claimed: fetch_all_pages terminates, whatever the responses are.
C23_Terminates == <>(pc = "done")

(***************************************************************************)
(* Properties of the token acquisition.                                    *)
(***************************************************************************)
\* The valid credentials the handler of the current window was called with.
ValidSeen == {seen[i] : i \in {j \in 1..Len(seen) : ValidTok(seen[j])}}

\* The values held in the two storage namespaces.
Stored ==
    {storage.local[i].value : i \in 1..Len(storage.local)}
    \cup {storage.session[i].value : i \in 1..Len(storage.session)}

\* A valid credential was observed on the network in the current window and
\* the storage holds a valid credential that was not.
NetworkAndStorageDiffer ==
    /\ ValidSeen /= {}
    /\ \E v \in Stored : ValidTok(v) /\ v \notin ValidSeen

\* C7 as claimed: once the browser was launched, browser.close() has been
\* called by the time get_token_from_playwright returns or raises.
C7_BrowserClosedOnEveryExit ==
    (apc = "done" /\ browser /= "none") => browser = "closed"

\* C8: a token returned by get_token_from_playwright or by
\* extract_auth_token, whichever channel supplied it, passes the validator.
C8_ReturnedTokenValid ==
    /\ (apc = "done" /\ outcome.kind = "return" /\ outcome.token /= NoToken) =>
            IsValidJwtToken(Text(outcome.token))
    /\ (apc = "ea_return" /\ ea_ret /= NoToken) => IsValidJwtToken(Text(ea_ret))

\* C8 witness: the api variant returns a valid token from a window in which
\* an invalid authorization header was observed too.
C8_Witness ==
    /\ apc = "done" /\ variant = "api"
    /\ outcome.kind = "return"
    /\ IsValidJwtToken(Text(outcome.token))
    /\ \E i \in 1..Len(seen) : seen[i] = "junk"

\* The window of _extract_from_network ended by an exception (lines 128-134):
\* a header was stored and None was returned nevertheless.
WindowRaised == net_found /\ net_token = NoToken

\* C9 as claimed: with a valid credential observed on the network in the
\* window and a different valid credential in storage, acquisition yields a
\* network-observed credential and does not read the storage; at the end of
\* the first window of the api variant, and at the return of
\* extract_auth_token from a window that no exception ended.
C9_NetworkPrecedence ==
    /\ (apc = "manual" /\ NetworkAndStorageDiffer) =>
            (token \in ValidSeen /\ scans = 0)
    /\ (apc = "ea_return" /\ NetworkAndStorageDiffer /\ ~WindowRaised) =>
            (ea_ret \in ValidSeen /\ ~ea_scanned)

\* C12 as claimed: no request that a navigation meant to trigger the API
\* call makes the page issue comes before the registration of the listener
\* of the window that is to observe it.
C12_ListenerBeforeNavigation == [][~RequestBeforeListener]_vars

\* The positions at which the inline handler of api_request.py is attached
\* (lines 189-236), and the one at which the handler of
\* _extract_from_network is (lines 114-125).
InlineWindow == {"uid1", "goto_home", "uid2", "goto_shelf", "window", "remove"}

NetworkWindow == {"ea_window"}

\* C13: a listener registered by the acquisition is attached only while its
\* observation window is open; none is attached once the window has ended,
\* by a credential found, by the timeout or by an exception, nor when
\* get_token_from_playwright has returned.
C13_NoListenerLeft ==
    /\ "inline" \in listeners => apc \in InlineWindow
    /\ "network" \in listeners => apc \in NetworkWindow

\* C13 witness: a window of _extract_from_network in which a header was
\* stored has ended by an exception, and no listener is attached.
C13_Witness ==
    /\ apc = "ea_check"
    /\ WindowRaised
    /\ listeners = {}

\* The first valid credential observed in the window.
FirstValidSeen == seen[Lowest({i \in 1..Len(seen) : ValidTok(seen[i])})]

\* C14 as claimed: the result of a window in which a valid credential was
\* observed is the first valid credential observed, for the inline handler
\* of api_request.py and for the handler of _extract_from_network.
C14_FirstWriterWins ==
    /\ (apc = "storage" /\ ValidSeen /= {}) => token = FirstValidSeen
    /\ (apc = "ea_check" /\ ValidSeen /= {} /\ ~WindowRaised) => net_token = FirstValidSeen

\* get_token_from_playwright of api_request.py has returned no credential.
NoCredentialReturned ==
    /\ apc = "done" /\ variant = "api"
    /\ outcome.kind = "return" /\ outcome.token = NoToken

\* The first window, the storage scan, the manual-navigation prompt and the
\* re-run by extract_auth_token (its window and its storage scan) have all
\* taken place, and none has yielded a credential.
AllChannelsTried ==
    /\ prompts = 2
    /\ scans = 2
    /\ caller = "manual" /\ ea_scanned
    /\ ~TruthyTok(token) /\ ~TruthyTok(ea_ret)

\* C15 as claimed: no credential is returned only after every channel and
\* the manual-navigation retry have been tried.
C15_FailedOnlyAfterRetry == NoCredentialReturned => AllChannelsTried

\* C15 amended: no credential is returned at once when the import of
\* Playwright fails (None) or when a step inside the try statement raises
\* (the except clause logs the error and returns (None, None)); otherwise
\* only after every channel and the manual-navigation retry have been tried.
C15_FailedAfterRetryOrError ==
    NoCredentialReturned =>
        \/ ~outcome.tuple /\ browser = "none"
        \/ outcome.error_logged
        \/ AllChannelsTried

\* C15 witness: (None, None) is returned without an exception, after the
\* retry.
C15_Witness ==
    /\ NoCredentialReturned
    /\ outcome.tuple /\ ~outcome.error_logged
    /\ AllChannelsTried

\* C25 as claimed: in a window of _extract_from_network only a header that
\* passes the validator sets request_found, which ends the wait, or becomes
\* the value returned, and that value is the first valid header observed.
C25_ValidatedBeforeAccepted ==
    /\ (apc = "ea_window" /\ net_found) => ValidSeen /= {}
    /\ (apc = "ea_check" /\ TruthyTok(net_token)) => ValidTok(net_token)
    /\ (apc = "ea_check" /\ ValidSeen /= {} /\ ~WindowRaised) => net_token = FirstValidSeen

\* C37: in get_token_from_playwright of api_request.py a first navigation
\* to the login page that fails is followed by the second one and by nothing
\* else; the second one is attempted only then; when it fails too, (None,
\* None) is returned with the browser closed and no prompt issued; no prompt
\* is issued before a navigation has succeeded.
C37_LoginNavigationRetriedOnce ==
    [][ variant = "api" =>
        /\ (apc = "goto_login" /\ apc' /= "input_login") =>
                /\ apc' = "goto_login_retry"
                /\ outcome' = Pending /\ browser' = "open"
        /\ apc' = "goto_login_retry" => apc = "goto_login"
        /\ (apc = "goto_login_retry" /\ apc' /= "input_login") =>
                /\ apc' = "done"
                /\ outcome' = [ReturnPair(NoToken, PyNone) EXCEPT !.error_logged = TRUE]
                /\ browser' = "closed"
        /\ (apc \in {"goto_login", "goto_login_retry"}) => (prompts = 0 /\ prompts' = 0) ]_vars

\* C37 witness: both navigations to the login page failed, and (None, None)
\* was returned without a prompt.
C37_Witness ==
    /\ apc = "done" /\ variant = "api"
    /\ outcome.tuple /\ outcome.token = NoToken /\ outcome.error_logged
    /\ browser = "closed"
    /\ prompts = 0

\* C38 as claimed: get_token_from_playwright of api_request.py eventually
\* returns a credential or the failure outcome, with at most two prompts and
\* two storage scans on the way, and at most two windows: the inline
\* listener is attached once, at line 189, and that of _extract_from_network
\* once, in the call after the second prompt.
C38_TerminatesWithOutcome ==
    /\ variant = "api" => <>(apc = "done" /\ outcome.kind = "return")
    /\ [](variant = "api" => prompts <= 2 /\ scans <= 2)
    /\ [][ variant = "api" =>
            /\ ("inline" \in listeners' /\ "inline" \notin listeners) => apc = "page_on"
            /\ ("network" \in listeners' /\ "network" \notin listeners) =>
                    (caller = "manual" /\ prompts = 2) ]_vars

\* Termination alone, by a return or by an exception.
AcquisitionEnds == <>(apc = "done")

\* C22: in get_token_from_playwright of api_request.py the storage is
\* scanned only once the first window has ended, its listener removed, with
\* no token; the manual-navigation prompt and the call of extract_auth_token
\* come only after that scan, with no token still, and once; in that call the
\* storage is scanned only when the window gave no valid token; with a valid
\* token in hand there is no further scan, prompt or window.
C22_ChannelsInOrder ==
    [][ variant = "api" =>
        /\ (scans' > scans /\ apc = "storage") =>
                /\ ~TruthyTok(token)
                /\ "inline" \notin listeners
                /\ scans = 0
        /\ (prompts' > prompts /\ apc /= "input_login") =>
                /\ apc = "manual"
                /\ ~TruthyTok(token)
                /\ scans = 1 /\ prompts = 1
        /\ ("network" \in listeners' /\ "network" \notin listeners) =>
                /\ caller = "manual"
                /\ ~TruthyTok(token)
                /\ scans = 1 /\ prompts = 2
        /\ (scans' > scans /\ apc /= "storage") =>
                /\ apc = "ea_storage"
                /\ ~ValidTok(net_token)
                /\ "network" \notin listeners
                /\ scans = 1
        /\ (ValidTok(token) \/ (apc = "ea_return" /\ ValidTok(ea_ret))) =>
                /\ scans' = scans
                /\ prompts' = prompts
                /\ "network" \notin listeners' ]_vars

\* C22 witness: the first window gave nothing, the storage scan gave a valid
\* token, and get_token_from_playwright returned it without a second prompt
\* or scan.
C22_Witness ==
    /\ apc = "done" /\ variant = "api"
    /\ outcome.kind = "return" /\ ValidTok(outcome.token)
    /\ ValidSeen = {}
    /\ scans = 1
    /\ prompts = 1

(***************************************************************************)
(* Properties of fetch_bookshelf_data and of the account identifier.       *)
(***************************************************************************)
\* C16 as claimed: no exception leaves get_token_from_playwright or
\* fetch_bookshelf_data; a failure of the acquisition is a value returned.
C16_NoExceptionPropagates ==
    /\ apc = "done" => outcome.kind = "return"
    /\ fb_ret /= "raise"

\* C19: a user_id that is non-empty is never assigned again, in
\* get_token_from_playwright while it runs, in fetch_all_pages and in
\* fetch_bookshelf_data; and in a harvest started without one, every request
\* for page 2 or later carries the id found in the response to page 1.
C19_UserIdImmutable ==
    [][ /\ (TruthyVal(user_id) /\ apc' /= "idle") => user_id' = user_id
        /\ TruthyVal(h_user_id) => h_user_id' = h_user_id
        /\ TruthyVal(fb_user_id) => fb_user_id' = fb_user_id
        /\ (Len(sent') > Len(sent) /\ page >= 2 /\ ~TruthyVal(sent[1]) /\ TruthyVal(user_data))
                => sent'[Len(sent')] = user_data ]_vars

\* C19 witness: fetch_bookshelf_data got no user_id from its caller nor from
\* the page, the response to page 1 held one, and the request for page 2
\* carried it.
C19_Witness ==
    /\ fb_pc = "fetch"
    /\ fb_user_id = PyNone
    /\ Len(sent) >= 2
    /\ sent[1] = PyStr(<<>>)
    /\ log[2].page = 2
    /\ sent[2] = ApiUserId

\* The identifier that the precedence of the sources gives: the caller's,
\* else the one of the API response body, else the one found in the page.
ByPrecedence ==
    IF TruthyVal(fb_args.user_id) THEN fb_args.user_id
    ELSE IF TruthyVal(user_data) THEN user_data
    ELSE fb_extracted

\* C20 as claimed: the user_id with which fetch_bookshelf_data ends is the
\* one of the highest-precedence source that supplied one.
C20_SourcePrecedence ==
    (fb_pc = "done" /\ fb_ret = "data") => fb_user_id = ByPrecedence

BothSupplied == TruthyTok(fb_args.token) /\ TruthyVal(fb_args.user_id)

\* C39: in fetch_bookshelf_data a token and a user_id given by the caller
\* are kept to the end, whatever get_token_from_playwright returned;
\* get_token_from_playwright runs, and a browser exists, only when the caller
\* left one of the two out; and with both given, fetch_all_pages is called
\* with the caller's user_id and sends it with every request.
C39_SuppliedValuesKept ==
    /\ TruthyTok(fb_args.token) => fb_token = fb_args.token
    /\ TruthyVal(fb_args.user_id) => fb_user_id = fb_args.user_id
    /\ BothSupplied =>
            /\ apc = "idle" /\ browser = "none" /\ fb_pc /= "acquire"
            /\ prompts = 0 /\ scans = 0 /\ fb_extracted = PyNone
            /\ pc /= "idle" => h_user_id = fb_args.user_id
            /\ \A i \in 1..Len(sent) : sent[i] = fb_args.user_id

\* C39 witness: called with a token and a user_id, fetch_bookshelf_data
\* returned the data of a harvest of two requests or more, with no browser.
C39_Witness ==
    /\ BothSupplied
    /\ fb_pc = "done" /\ fb_ret = "data"
    /\ Len(sent) >= 2
    /\ browser = "none"
    /\ fb_token = "jwtA" /\ fb_user_id = ExplicitUserId

\* The caller's token was kept when get_token_from_playwright, called for
\* the user_id, returned a pair.
KeptAfterAcquisition ==
    /\ fb_pc = "call_fetch"
    /\ fb_args = [token |-> "jwtA", user_id |-> PyNone]
    /\ TruthyVal(fb_extracted) /\ fb_user_id = fb_extracted
    /\ fb_token = "jwtA"

(***************************************************************************)
(* Properties of _extract_from_storage.                                    *)
(***************************************************************************)
\* The entries of a namespace whose read does not raise.
WithoutReadErrors(ns) == SelectSeq(ns, LAMBDA e : e.value /= ReadError)

\* The key is one of storage_keys.
IsFixedKey(key) == \E i \in 1..Len(storage_keys) : storage_keys[i] = key

\* The valid credentials a namespace holds under fixed keys.
UnderFixedKey(ns) ==
    {ns[i].value : i \in {j \in 1..Len(ns) : IsFixedKey(ns[j].key) /\ ValidTok(ns[j].value)}}

\* The valid credentials a namespace holds under keys that are not fixed and
\* whose name contains 'auth' or 'token'.
UnderOtherKey(ns) ==
    {ns[i].value : i \in {j \in 1..Len(ns) : /\ ~IsFixedKey(ns[j].key)
                                              /\ NameMatches(ns[j].key)
                                              /\ ValidTok(ns[j].value)}}

\* Both namespaces hold a valid credential under a fixed key and another
\* under a key that is not fixed.
BothNamespacesHoldBoth ==
    /\ UnderFixedKey(s_storage.local) /= {} /\ UnderOtherKey(s_storage.local) /= {}
    /\ UnderFixedKey(s_storage.session) /= {} /\ UnderOtherKey(s_storage.session) /= {}

\* The valid credentials a namespace holds under keys whose name contains
\* 'auth' or 'token'.
UnderMatchingKey(ns) ==
    {ns[i].value : i \in {j \in 1..Len(ns) : NameMatches(ns[j].key) /\ ValidTok(ns[j].value)}}

\* The read of some key of the namespace raises.
HasReadError(ns) == \E i \in 1..Len(ns) : ns[i].value = ReadError

\* C26 as claimed: when no read raises and no fixed key holds a valid
\* credential, _extract_from_storage returns a valid credential stored under
\* a key whose name contains 'auth' or 'token' if there is one, whatever
\* else the fixed keys hold.
C26_InvalidFixedKeyDoesNotHide ==
    (/\ s_pc = "done"
     /\ ~HasReadError(s_storage.local) /\ ~HasReadError(s_storage.session)
     /\ UnderFixedKey(s_storage.local) = {} /\ UnderFixedKey(s_storage.session) = {}
     /\ UnderMatchingKey(s_storage.local) \cup UnderMatchingKey(s_storage.session) /= {}) =>
        s_ret \in UnderMatchingKey(s_storage.local) \cup UnderMatchingKey(s_storage.session)

\* C27 as claimed: with reads that raise, _extract_from_storage still
\* returns what it returns from the same storage without the entries whose
\* read raises: the first non-empty value under a fixed key, else the first
\* valid credential under a key whose name contains 'auth' or 'token'.
C27_ReadErrorsIsolated ==
    s_pc = "done" =>
        s_ret = ExtractFromStorage([local |-> WithoutReadErrors(s_storage.local),
                                    session |-> WithoutReadErrors(s_storage.session)])

\* C11: with a valid credential under a fixed key and another under a key
\* that is not fixed in both namespaces, _extract_from_storage returns the
\* one under the fixed key of localStorage, whatever the order of the entries
\* in the namespaces.
C11_FixedKeyFirstNamespace ==
    (s_pc = "done" /\ BothNamespacesHoldBoth) => s_ret \in UnderFixedKey(s_storage.local)

\* C11 witness: the four credentials are there and the one returned is
\* neither the other one of localStorage nor one of sessionStorage.
C11_Witness ==
    /\ s_pc = "done"
    /\ BothNamespacesHoldBoth
    /\ s_ret \in UnderFixedKey(s_storage.local)
    /\ s_ret \notin UnderOtherKey(s_storage.local)
    /\ s_ret \notin UnderFixedKey(s_storage.session)
    /\ s_ret \notin UnderOtherKey(s_storage.session)

(***************************************************************************)
(* Properties of _is_valid_jwt_token.                                      *)
(***************************************************************************)
\* The number of '.' characters of a string.
Dots(chars) == Cardinality({i \in 1..Len(chars) : chars[i] = "."})

HasJwtPrefix(chars) ==
    Len(chars) >= 3 /\ chars[1] = "e" /\ chars[2] = "y" /\ chars[3] = "J"

ThreeNonEmptySegments(chars) ==
    LET parts == Split(chars, ".")
    IN  Len(parts) = 3 /\ \A i \in 1..3 : parts[i] /= <<>>

\* C10 as claimed: the validator accepts exactly the strings of three
\* non-empty dot-separated segments that start with 'eyJ' and have at least
\* 50 characters.
C10_ValidIffThreeNonEmptySegments ==
    v_pc = "done" =>
        (v_ret <=> /\ v_token.type = "str"
                   /\ ThreeNonEmptySegments(v_token.chars)
                   /\ HasJwtPrefix(v_token.chars)
                   /\ Len(v_token.chars) >= MinTokenLen)

\* C10 amended: the validator accepts exactly the strings with two '.'
\* characters (three segments, empty ones included) that start with 'eyJ'
\* and have at least 50 characters; it rejects empty and non-string input.
C10_ValidIffThreeSegments ==
    v_pc = "done" =>
        /\ (v_ret <=> /\ v_token.type = "str"
                      /\ Dots(v_token.chars) = 2
                      /\ HasJwtPrefix(v_token.chars)
                      /\ Len(v_token.chars) >= MinTokenLen)
        /\ (v_token.type /= "str" \/ v_token.chars = <<>> => ~v_ret)

\* C10 witness: an accepted string of exactly 50 characters whose last
\* segment is empty.
C10_Witness ==
    /\ v_pc = "done"
    /\ v_ret
    /\ Len(v_token.chars) = MinTokenLen
    /\ v_token.chars[Len(v_token.chars)] = "."

====
